---- MODULE Spec2Model ----
(***************************************************************************)
(* blflash: host side of the BL602/BL616 two-stage serial flashing         *)
(* protocol.  The model follows src/blflash/src/connection.rs (framing,    *)
(* status decoding, baud and timeout handling) and                         *)
(* src/blflash/src/flasher.rs (connect, loader upload, segment pipeline,   *)
(* check, dump).  The serial peer is the environment: whenever the host    *)
(* writes, the peer puts a reply of its choice into the receive buffer.    *)
(***************************************************************************)
EXTENDS Integers, Sequences, FiniteSets, TLC

\* ------------------------------------------------------------------ bounds
\* full 4000-byte chunks in the longest loader tail / segment considered
MaxChunks == 1
\* segments the iterator of one operation yields at most
MaxSegs == 2
\* flash_read frames one dump_flash writes at most
MaxDumpReads == 3
\* with_timeout calls made on one Connection
MaxCalls == 2

\* -------------------------------------------------------- program constants
DEFAULT_BAUDRATE == 115200
InitialBaud == 115200
FlashBaud == 1000000
LOAD_BOOT_HEADER_LEN == 176
LOAD_SEGMENT_HEADER_LEN == 16
SEGMENT_DATA_CHUNK == 4000
PROGRAM_CHUNK == 4000
BLOCK_SIZE == 4096
HANDSHAKE_READS == 5
CONNECT_RETRIES == 10
HANDSHAKE_TIMEOUT_MS == 200
HANDSHAKE_BURST_MS == 5
CONNECT_TIMEOUT_MS == 10000
DIGEST_LEN == 32

\* ------------------------------------------------------------------- bytes
Byte == 0..255
OK == <<79, 75>>
FL == <<70, 76>>

Min(a, b) == IF a < b THEN a ELSE b
Take(s, n) == SubSeq(s, 1, n)
Drop(s, n) == SubSeq(s, n + 1, Len(s))
Rep(b, n) == [i \in 1..n |-> b]

\* byteorder::LittleEndian
u16le(s) == s[1] + 256 * s[2]
le16(n) == <<n % 256, (n \div 256) % 256>>

\* ------------------------------------------------------------------ errors
NoErr == [kind |-> "none", rom |-> "-"]
IOErr == [kind |-> "IO", rom |-> "-"]
RespError == [kind |-> "RespError", rom |-> "-"]
TimeoutErr == [kind |-> "Timeout", rom |-> "-"]
ConnectionFailed == [kind |-> "ConnectionFailed", rom |-> "-"]
ParseError == [kind |-> "ParseError", rom |-> "-"]
RomErr(name) == [kind |-> "RomError", rom |-> name]
ArgsError == [kind |-> "ArgsError", rom |-> "-"]
SerialErr == [kind |-> "Serial", rom |-> "-"]

\* enum RomError (#[repr(u16)], TryFromPrimitive)
RomError ==
    (0 :> "Success") @@ (1 :> "FlashInitError") @@ (2 :> "FlashEraseParaError") @@
    (3 :> "FlashEraseError") @@ (4 :> "FlashWriteParaError") @@
    (5 :> "FlashWriteAddrError") @@ (6 :> "FlashWriteError") @@ (7 :> "FlashBootPara") @@
    (257 :> "CmdIdError") @@ (258 :> "CmdLenError") @@ (259 :> "CmdCrcError") @@
    (260 :> "CmdSeqError") @@
    (513 :> "ImgBootheaderLenError") @@ (514 :> "ImgBootheaderNotLoadError") @@
    (515 :> "ImgBootheaderMagicError") @@ (516 :> "ImgBootheaderCrcError") @@
    (517 :> "ImgBootheaderEncryptNotfit") @@ (518 :> "ImgBootheaderSignNotfit") @@
    (519 :> "ImgSegmentCntError") @@ (520 :> "ImgAesIvLenError") @@
    (521 :> "ImgAesIvCrcError") @@ (522 :> "ImgPkLenError") @@ (523 :> "ImgPkCrcError") @@
    (524 :> "ImgPkHashError") @@ (525 :> "ImgSignatureLenError") @@
    (526 :> "ImgSignatureCrcError") @@ (527 :> "ImgSectionheaderLenError") @@
    (528 :> "ImgSectionheaderCrcError") @@ (529 :> "ImgSectionheaderDstError") @@
    (530 :> "ImgSectiondataLenError") @@ (531 :> "ImgSectiondataDecError") @@
    (532 :> "ImgSectiondataTlenError") @@ (533 :> "ImgSectiondataCrcError") @@
    (534 :> "ImgHalfbakedError") @@ (535 :> "ImgHashError") @@
    (536 :> "ImgSignParseError") @@ (537 :> "ImgSignError") @@ (538 :> "ImgDecError") @@
    (539 :> "ImgAllInvalidError") @@
    (769 :> "IfRateLenError") @@ (770 :> "IfRateParaError") @@
    (771 :> "IfPasswordError") @@ (772 :> "IfPasswordClose") @@
    (65532 :> "PllError") @@ (65533 :> "InvasionError") @@ (65534 :> "Polling") @@
    (65535 :> "Fail") @@ (36863 :> "Unknow")

\* the conversion with a code outside the enumeration mapped to Fail
try_from_or_fail(code) ==
    IF code \in DOMAIN RomError THEN RomError[code] ELSE "Fail"

\* RomError::try_from(code).unwrap_or(RomError::Unknow)
try_from_or_unknow(code) ==
    IF code \in DOMAIN RomError THEN RomError[code] ELSE "Unknow"

\* ------------------------------------------------------ Connection: reading
\* Connection::read_exact over the bytes received so far.  When fewer than
\* len bytes arrive before the timeout the read fails and the bytes it took
\* are gone.
read_exact(buf, len) ==
    IF Len(buf) >= len
    THEN [err |-> NoErr, data |-> Take(buf, len), rx |-> Drop(buf, len)]
    ELSE [err |-> IOErr, data |-> <<>>, rx |-> <<>>]

\* Connection::read_response
read_response(buf, len) ==
    LET resp == read_exact(buf, 2) IN
    IF resp.err # NoErr THEN resp
    ELSE IF resp.data = OK
         THEN IF len > 0 THEN read_exact(resp.rx, len)
              ELSE [err |-> NoErr, data |-> <<>>, rx |-> resp.rx]
    ELSE IF resp.data = FL
         THEN LET code == read_exact(resp.rx, 2) IN
              IF code.err # NoErr THEN code
              ELSE [err |-> RomErr(try_from_or_unknow(u16le(code.data))),
                    data |-> <<>>, rx |-> code.rx]
    ELSE [err |-> RespError, data |-> <<>>, rx |-> resp.rx]

\* Connection::calc_duration_length; baud 0 stands for baud_rate == None
calc_duration_length(baud, duration_ms) ==
    (((IF baud = 0 THEN DEFAULT_BAUDRATE ELSE baud) \div 10) \div 1000) * duration_ms

\* --------------------------------------------------------- Connection: pins
\* pin expressions are strings, kept as the sequence of their characters
Rts == <<"r", "t", "s">>
Dtr == <<"d", "t", "r">>
Null == <<"n", "u", "l", "l">>
Bang(pin) == <<"!">> \o pin

\* lib.rs: default_value of --reset-pin and --boot-pin
DefaultResetPin == Rts
DefaultBootPin == Bang(Dtr)

\* str::starts_with('!')
starts_with_bang(pin) == Len(pin) > 0 /\ pin[1] = "!"

RECURSIVE trim_start_matches_bang(_)
\* str::trim_start_matches('!'): every leading '!' is taken off
trim_start_matches_bang(pin) ==
    IF starts_with_bang(pin) THEN trim_start_matches_bang(Drop(pin, 1)) ELSE pin

\* Connection::set_pin on the lines st = [rts, dtr]; fails tells whether the
\* serial port refuses the write.  The result holds the error, the lines
\* afterwards, and the line and level that were driven ("-" for none).
set_pin(st, pin, level, fails) ==
    LET lvl == IF starts_with_bang(pin) THEN ~level ELSE level
        name == trim_start_matches_bang(pin)
    IN
    CASE name = Rts ->
           IF fails THEN [err |-> SerialErr, rts |-> st.rts, dtr |-> st.dtr,
                          line |-> "-", driven |-> FALSE]
           ELSE [err |-> NoErr, rts |-> lvl, dtr |-> st.dtr, line |-> "rts", driven |-> lvl]
      [] name = Dtr ->
           IF fails THEN [err |-> SerialErr, rts |-> st.rts, dtr |-> st.dtr,
                          line |-> "-", driven |-> FALSE]
           ELSE [err |-> NoErr, rts |-> st.rts, dtr |-> lvl, line |-> "dtr", driven |-> lvl]
      [] name = Null ->
           [err |-> NoErr, rts |-> st.rts, dtr |-> st.dtr, line |-> "-", driven |-> FALSE]
      [] OTHER ->
           [err |-> ArgsError, rts |-> st.rts, dtr |-> st.dtr, line |-> "-", driven |-> FALSE]

\* the set_boot_pin / set_reset_pin calls of Connection::reset
reset_calls ==
    <<[pin |-> "boot", level |-> FALSE], [pin |-> "reset", level |-> TRUE],
      [pin |-> "reset", level |-> FALSE]>>

\* reset_to_flash dropping boot before the reset pulse is over
reset_to_flash_calls_early_drop ==
    <<[pin |-> "boot", level |-> TRUE], [pin |-> "reset", level |-> TRUE],
      [pin |-> "boot", level |-> FALSE], [pin |-> "reset", level |-> FALSE]>>

\* the set_boot_pin / set_reset_pin calls of Connection::reset_to_flash
reset_to_flash_calls ==
    <<[pin |-> "boot", level |-> TRUE], [pin |-> "reset", level |-> TRUE],
      [pin |-> "reset", level |-> FALSE], [pin |-> "boot", level |-> FALSE]>>

RECURSIVE pin_sequence(_, _, _, _, _)
\* calls[k..] made one after the other with ?: the first failing call ends
\* the sequence.  st = [err, rts, dtr, pinlog] is the state before call k;
\* failAt is the call at which the serial port refuses the write (0: none).
\* A pinlog entry holds the pin ("boot" or "reset"), its expression, the
\* level asked for, the line and level driven, the error, and the lines
\* before (rts0, dtr0) and after (rts, dtr) the call.
pin_sequence(calls, k, st, pins, failAt) ==
    IF k > Len(calls) THEN st
    ELSE LET c == calls[k]
             expr == IF c.pin = "boot" THEN pins.boot ELSE pins.reset
             r == set_pin(st, expr, c.level, k = failAt)
             e == [pin |-> c.pin, expr |-> expr, level |-> c.level,
                   line |-> r.line, driven |-> r.driven, err |-> r.err,
                   rts0 |-> st.rts, dtr0 |-> st.dtr, rts |-> r.rts, dtr |-> r.dtr]
             next == [err |-> r.err, rts |-> r.rts, dtr |-> r.dtr,
                      pinlog |-> Append(st.pinlog, e)]
         IN IF r.err # NoErr THEN next
            ELSE pin_sequence(calls, k + 1, next, pins, failAt)

\* Connection::reset
reset(st, pins, failAt) == pin_sequence(reset_calls, 1, st, pins, failAt)

\* Connection::reset_to_flash
reset_to_flash(st, pins, failAt) == pin_sequence(reset_to_flash_calls, 1, st, pins, failAt)

\* ----------------------------------------------------- protocol: commands
\* A command value: its CMD_ID, its u32 fields, the length of its Vec<u8>
\* field and the type of its response.
Cmd(id, args, data, resp) == [id |-> id, args |-> args, data |-> data, resp |-> resp]

BootInfoReq == Cmd(16, <<>>, 0, "BootInfo")
BootInfoReqV2 == Cmd(16, <<>>, 0, "BootInfoV2")
LoadBootHeader(n) == Cmd(17, <<>>, n, "NoResponsePayload")
LoadSegmentHeaderReq(n) == Cmd(23, <<>>, n, "LoadSegmentHeader")
LoadSegmentData(n) == Cmd(24, <<>>, n, "NoResponsePayload")
CheckImage == Cmd(25, <<>>, 0, "NoResponsePayload")
RunImage == Cmd(26, <<>>, 0, "NoResponsePayload")
FlashErase_by_len(start, end) == Cmd(48, <<start, end - start>>, 0, "NoResponsePayload")
FlashErase(start, end) == Cmd(48, <<start, end>>, 0, "NoResponsePayload")
FlashProgram(addr, n) == Cmd(49, <<addr>>, n, "NoResponsePayload")
FlashRead(addr, size) == Cmd(50, <<addr, size>>, 0, "FlashReadResp")
Sha256Read(addr, len) == Cmd(61, <<addr, len>>, 0, "Sha256ReadResp")

BootRomIds == {16, 17, 23, 24, 25, 26}
EflashLoaderIds == {48, 49, 50, 61}

\* command.to_bytes(): every u32 field is 4 bytes, the Vec<u8> field is raw
body_len(c) == 4 * Len(c.args) + c.data

\* to_cmd writing the length with the high byte first
to_cmd_big_endian(c) ==
    <<c.id, 0, ((body_len(c) % 65536) \div 256) % 256, (body_len(c) % 65536) % 256>>

\* Connection::to_cmd: the four header bytes in front of the body
to_cmd(c) == <<c.id, 0>> \o le16(body_len(c) % 65536)

u32le(s) == s[1] + 256 * s[2] + 65536 * s[3] + 16777216 * s[4]

\* Response::from_payload for each response type (deku readers)
from_payload(resp, input) ==
    CASE resp = "BootInfo" ->
           IF Len(input) < 22 THEN [err |-> ParseError, val |-> <<>>]
           ELSE [err |-> NoErr,
                 val |-> [len |-> u16le(input),
                          bootrom_version |-> u32le(SubSeq(input, 3, 6)),
                          otp_info |-> SubSeq(input, 7, 22)]]
      [] resp = "BootInfoV2" ->
           IF Len(input) < 26 THEN [err |-> ParseError, val |-> <<>>]
           ELSE [err |-> NoErr,
                 val |-> [len |-> u16le(input),
                          bootrom_version |-> u32le(SubSeq(input, 3, 6)),
                          otp_info |-> SubSeq(input, 7, 22),
                          unknow_info |-> SubSeq(input, 23, 26)]]
      [] resp = "Sha256ReadResp" ->
           IF Len(input) < 2 + DIGEST_LEN \/ Take(input, 2) # <<32, 0>>
           THEN [err |-> ParseError, val |-> <<>>]
           ELSE [err |-> NoErr, val |-> SubSeq(input, 3, 2 + DIGEST_LEN)]
      [] OTHER ->
           \* LoadSegmentHeader, FlashReadResp: len u16, data[len]
           IF Len(input) < 2 + u16le(input) THEN [err |-> ParseError, val |-> <<>>]
           ELSE [err |-> NoErr, val |-> SubSeq(input, 3, 2 + u16le(input))]

\* Connection::command after the frame was written and flushed: buf is what
\* the serial port has received.
command(buf, c) ==
    IF c.resp = "NoResponsePayload"
    THEN LET r == read_response(buf, 0) IN
         [err |-> r.err, val |-> <<>>, rx |-> r.rx]
    ELSE LET r == read_response(buf, 2) IN
         IF r.err # NoErr THEN [err |-> r.err, val |-> <<>>, rx |-> r.rx]
         ELSE LET len == u16le(r.data)
                  d == read_exact(r.rx, len) IN
              IF d.err # NoErr THEN [err |-> d.err, val |-> <<>>, rx |-> d.rx]
              ELSE LET p == from_payload(c.resp, r.data \o d.data) IN
                   [err |-> p.err, val |-> p.val, rx |-> d.rx]

\* to_v2 leaving otp_info at its default
to_v2_drops_otp(b) ==
    [len |-> b.len, bootrom_version |-> b.bootrom_version,
     otp_info |-> Rep(0, 16), unknow_info |-> Rep(0, 4)]

\* BootInfo::to_v2
to_v2(b) ==
    [len |-> b.len, bootrom_version |-> b.bootrom_version,
     otp_info |-> b.otp_info, unknow_info |-> Rep(0, 4)]

\* BootInfoV2::default()
BootInfoV2_default ==
    [len |-> 0, bootrom_version |-> 0, otp_info |-> Rep(0, 16), unknow_info |-> Rep(0, 4)]

\* ------------------------------------------------------------------- state
VARIABLES
    chip,        \* Flasher.chip: "BL602" or "BL616"
    loaderLen,   \* length of chip.get_eflash_loader()
    pc,          \* position of the host program
    op,          \* the Flasher operation in progress or last run
    result,      \* what the last finished operation returned (NoErr = Ok)
    baud_rate,   \* Connection.baud_rate, 0 = None
    timeout,     \* the serial port's timeout in ms, 0 = the port's own default
    boot_info,   \* Flasher.boot_info
    hsTry,       \* start_connection: i of the retry loop
    reader,      \* load_eflash_loader: position of the Cursor over the blob
    segs,        \* load_segments / check_segments: the segments the iterator gave
    force,       \* load_segments: force
    segIdx,      \* index of the segment the for loop is at
    segReader,   \* load_segments: position of the Cursor over segment.data
    cur,         \* load_segments / dump_flash: cur
    range,       \* dump_flash: range
    written,     \* dump_flash: bytes handed to the writer
    log,         \* serial port operations of the current operation, in order
    rx,          \* bytes the peer sent that the host has not read yet
    dev,         \* what the device executes: "app", "rom" or "loader"
    reset_pin,   \* Connection.reset_pin, the pin expression as its characters
    boot_pin,    \* Connection.boot_pin
    rts,         \* level of the RTS line
    dtr,         \* level of the DTR line
    pinlog,      \* the calls of set_pin, in order
    old_timeout  \* with_timeout: old_timeout

vars == <<chip, loaderLen, pc, op, result, baud_rate, timeout, boot_info,
          hsTry, reader, segs, force, segIdx, segReader, cur, range, written,
          log, rx, dev, reset_pin, boot_pin, rts, dtr, pinlog, old_timeout>>

connVars == <<baud_rate, timeout, boot_info, hsTry>>
loaderVars == <<reader>>
segVars == <<segs, force, segIdx, segReader, cur>>
dumpVars == <<range, written>>
inputVars == <<chip, loaderLen>>
portVars == <<reset_pin, boot_pin, rts, dtr, pinlog, old_timeout>>

\* ------------------------------------------------------------------ inputs
Chips == {"BL602", "BL616"}

\* loader blobs: too short for the boot header, too short for the segment
\* header, the two headers alone, and the two headers followed by full
\* chunks with and without a partial one
LoaderLens ==
    {100, 175, 176, 180, 191, LOAD_BOOT_HEADER_LEN + LOAD_SEGMENT_HEADER_LEN} \cup
    {LOAD_BOOT_HEADER_LEN + LOAD_SEGMENT_HEADER_LEN + MaxChunks * SEGMENT_DATA_CHUNK + r :
        r \in {0, 1000}}

\* chip.get_eflash_loader(): every chip carries its own blob; the lengths a
\* chip's blob may have.  The upload reads the blob and never the chip, and
\* get_boot_info reads the chip and never the blob.
get_eflash_loader(c) ==
    IF c = "BL602"
    THEN {n \in LoaderLens : n \in {100} \/ n > LOAD_BOOT_HEADER_LEN + LOAD_SEGMENT_HEADER_LEN + MaxChunks * SEGMENT_DATA_CHUNK}
    ELSE {n \in LoaderLens : n # 100 /\ n <= LOAD_BOOT_HEADER_LEN + LOAD_SEGMENT_HEADER_LEN + MaxChunks * SEGMENT_DATA_CHUNK}

\* a RomSegment: addr, the number of data bytes, and a tag standing for the
\* content of data
SegA == [addr |-> 65536, len |-> 15, tag |-> 1]
SegB == [addr |-> 131072, len |-> MaxChunks * PROGRAM_CHUNK, tag |-> 2]
SegC == [addr |-> 196608, len |-> MaxChunks * PROGRAM_CHUNK + 1, tag |-> 3]
Segments == {SegA, SegB, SegC}

\* what the segments iterator may give after the segments ss: nothing more,
\* or a segment at a higher address (an image lists its segments in
\* address order)
NextSegments(ss) ==
    {s \in Segments : \A i \in 1..Len(ss) : ss[i].addr < s.addr}

\* dump_flash ranges: empty, reversed, less than a block, one block, more
Ranges ==
    {[start |-> 0, end |-> 0], [start |-> 16, end |-> 0], [start |-> 16, end |-> 26],
     [start |-> 0, end |-> BLOCK_SIZE], [start |-> 4096, end |-> 2 * BLOCK_SIZE + 1]}

\* RomSegment::size() of elf.rs: the number of bytes of data, as the
\* specification describes a RomSegment
size(segment) == segment.len

\* Sha256::digest(&segment.data[0..size]): SHA-256 is kept opaque, one
\* digest per content
Sha256_digest(segment) == Rep(segment.tag, DIGEST_LEN)
OtherDigest == Rep(0, DIGEST_LEN)

\* the 16 bytes of the blob that load_segment_header sends
SegmentHeaderBytes == Rep(1, LOAD_SEGMENT_HEADER_LEN)

\* ------------------------------------------------- the peer's replies
\* The peer answers every burst and every frame at most once, with a reply
\* of its choice.  The answer to a command arrives within the command's
\* timeout or never.  The boot ROM's answer to a training burst of the
\* connect loop may arrive late, after the handshake's reads (200 ms each)
\* have given up and before the next try: now is what arrives before the
\* reads, late what arrives after them.  The loader answers its one burst
\* within the reads or never.
BurstReplies ==
    {[now |-> <<>>, late |-> <<>>],
     [now |-> OK, late |-> <<>>],
     [now |-> <<0, 0>> \o OK, late |-> <<>>],
     [now |-> <<>>, late |-> OK]}

LoaderBurstReplies == {reply \in BurstReplies : reply.late = <<>>}

FLCodes == {6, 4660}

\* to a command without response payload
StatusReplies == {<<>>, OK, <<0, 0>>} \cup {FL \o le16(code) : code \in FLCodes}

\* to boot_info: the v1 shape, the v2 shape, a short payload, a len field
\* that announces more than the peer sends
BootInfoReplies ==
    {<<>>, <<0, 0>>, FL \o le16(257),
     OK \o le16(20) \o <<52, 18, 0, 0>> \o Rep(7, 16),
     OK \o le16(24) \o <<52, 18, 0, 0>> \o Rep(7, 16) \o Rep(9, 4),
     OK \o le16(4) \o <<52, 18, 0, 0>>,
     OK \o <<0, 26>> \o <<52, 18, 0, 0>> \o Rep(7, 16)}

SegmentHeaderReplies ==
    (StatusReplies \ {OK}) \cup
    {OK \o le16(LOAD_SEGMENT_HEADER_LEN) \o SegmentHeaderBytes,
     OK \o le16(LOAD_SEGMENT_HEADER_LEN) \o Rep(2, LOAD_SEGMENT_HEADER_LEN)}

Sha256Replies(segment) ==
    (StatusReplies \ {OK}) \cup
    {OK \o <<32, 0>> \o Sha256_digest(segment),
     OK \o <<32, 0>> \o OtherDigest,
     OK \o <<33, 0>> \o Rep(0, 33)}

\* to flash_read: the requested number of bytes, none, one more
FlashReadReplies(n) ==
    (StatusReplies \ {OK}) \cup
    {OK \o le16(k) \o Rep(255, k) : k \in {n, 0, n + 1}}

\* ------------------------------------------------------------- the log
\* One entry per operation on the serial port: ev is "set_baud",
\* "reset_to_flash", "burst" (a handshake) or "frame" (a command).  hdr, args
\* and data are what was written, ans the first bytes of the peer's answer,
\* err and val what the call returned, reads the status headers a handshake
\* read; seg is the segment the for loop is at; baud, dev and stale are the
\* port's baud rate, what the device executes and the number of unread
\* bytes when the write was made.  ans keeps the whole answer to boot_info.
Entry(ev, id, hdr, args, data, ans, err, val, reads, seg) ==
    [ev |-> ev, id |-> id, hdr |-> hdr, args |-> args, data |-> data,
     ans |-> ans, err |-> err, val |-> val, reads |-> reads, seg |-> seg,
     baud |-> baud_rate, dev |-> dev, stale |-> Len(rx)]

\* a command frame written by Connection::command and the result it returned
FrameEntry(c, reply, r, seg) ==
    Entry("frame", c.id, to_cmd(c), c.args, c.data,
          IF c.id = 16 THEN reply ELSE Take(reply, Min(4, Len(reply))),
          r.err,
          IF c.resp \in {"Sha256ReadResp", "LoadSegmentHeader"} THEN r.val
          ELSE IF c.resp = "FlashReadResp" /\ r.err = NoErr THEN <<Len(r.val)>>
          ELSE <<>>,
          0, seg)

\* -------------------------------------------------------------- handshake
RECURSIVE handshake_reads_any(_, _)
\* the read loop taking any status header that was read in full for success
handshake_reads_any(buf, k) ==
    IF k = HANDSHAKE_READS THEN [err |-> TimeoutErr, rx |-> buf, reads |-> k]
    ELSE LET r == read_response(buf, 0) IN
         IF r.err # IOErr THEN [err |-> NoErr, rx |-> r.rx, reads |-> k + 1]
         ELSE handshake_reads_any(r.rx, k + 1)

RECURSIVE handshake_reads(_, _)
\* the for _ in 0..5 loop of Flasher::handshake, k reads done so far
handshake_reads(buf, k) ==
    IF k = HANDSHAKE_READS THEN [err |-> TimeoutErr, rx |-> buf, reads |-> k]
    ELSE LET r == read_response(buf, 0) IN
         IF r.err = NoErr THEN [err |-> NoErr, rx |-> r.rx, reads |-> k + 1]
         ELSE handshake_reads(r.rx, k + 1)

\* Flasher::handshake after the burst was written: buf is what the port
\* has received when the reads start
handshake(buf) == handshake_reads(buf, 0)

\* Connection::with_timeout: the timeout the port is left with
with_timeout(before, during) == before

\* a handshake: the burst written, the bytes its reads took (val) and
\* what it returned
BurstEntry(buf, h) ==
    Entry("burst", 0, <<>>, <<>>, calc_duration_length(baud_rate, HANDSHAKE_BURST_MS),
          <<>>, h.err, Take(buf, Len(buf) - Len(h.rx)), h.reads, 0)

\* -------------------------------------------------------------------- Init
Init ==
    /\ chip \in Chips
    /\ loaderLen \in get_eflash_loader(chip)
    /\ pc = "connect"
    /\ op = "connect"
    /\ result = NoErr
    /\ baud_rate = 0
    /\ timeout = 0
    /\ boot_info = BootInfoV2_default
    /\ hsTry = 0
    /\ reader = 0
    /\ segs = <<>>
    /\ force = FALSE
    /\ segIdx = 0
    /\ segReader = 0
    /\ cur = 0
    /\ range = [start |-> 0, end |-> 0]
    /\ written = 0
    /\ log = <<>>
    /\ rx = <<>>
    /\ dev = "app"
    /\ reset_pin = DefaultResetPin
    /\ boot_pin = DefaultBootPin
    /\ rts = TRUE   \* both lines asserted, as opening the port leaves them;
    /\ dtr = TRUE   \* InitPins starts from every level
    /\ pinlog = <<>>
    /\ old_timeout = 0

\* ----------------------------------------------------------------- connect
\* Flasher::connect: set_baud(initial_speed)
connect_set_baud ==
    /\ pc = "connect"
    /\ baud_rate' = InitialBaud
    /\ log' = Append(log, Entry("set_baud", 0, <<>>, <<InitialBaud>>, 0, <<>>, NoErr, <<>>, 0, 0))
    /\ pc' = "start_connection"
    /\ UNCHANGED <<inputVars, portVars, op, result, timeout, boot_info, hsTry,
                   loaderVars, segVars, dumpVars, rx, dev>>

\* Flasher::start_connection: reset_to_flash, which puts the device into
\* its boot ROM
start_connection ==
    /\ pc = "start_connection"
    /\ LET r == reset_to_flash([err |-> NoErr, rts |-> rts, dtr |-> dtr, pinlog |-> pinlog],
                               [reset |-> reset_pin, boot |-> boot_pin], 0) IN
       /\ rts' = r.rts
       /\ dtr' = r.dtr
       /\ pinlog' = r.pinlog
       /\ log' = Append(log, Entry("reset_to_flash", 0, <<>>, <<>>, 0, <<>>, r.err, <<>>, 0, 0))
       /\ IF r.err = NoErr
          THEN /\ dev' = "rom"
               /\ hsTry' = 1
               /\ pc' = "connect_handshake"
               /\ UNCHANGED result
          ELSE /\ pc' = "failed"
               /\ result' = r.err
               /\ UNCHANGED <<dev, hsTry>>
    /\ UNCHANGED <<inputVars, reset_pin, boot_pin, old_timeout, op, baud_rate, timeout,
                   boot_info, loaderVars, segVars, dumpVars, rx>>

\* Flasher::start_connection: one turn of for i in 1..=10
connect_handshake ==
    /\ pc = "connect_handshake"
    /\ \E reply \in BurstReplies :
         LET h == handshake(rx \o reply.now) IN
         /\ log' = Append(log, BurstEntry(rx \o reply.now, h))
         /\ rx' = h.rx \o reply.late
         /\ timeout' = with_timeout(timeout, HANDSHAKE_TIMEOUT_MS)
         /\ IF h.err = NoErr
            THEN /\ pc' = "connect_set_timeout"
                 /\ hsTry' = 0
                 /\ UNCHANGED result
            ELSE IF hsTry = CONNECT_RETRIES
            THEN /\ pc' = "failed"
                 /\ result' = ConnectionFailed
                 /\ hsTry' = 0
            ELSE /\ hsTry' = hsTry + 1
                 /\ UNCHANGED <<pc, result>>
    /\ UNCHANGED <<inputVars, portVars, op, baud_rate, boot_info,
                   loaderVars, segVars, dumpVars, dev>>

\* Flasher::connect: set_timeout(10 s)
connect_set_timeout ==
    /\ pc = "connect_set_timeout"
    /\ timeout' = CONNECT_TIMEOUT_MS
    /\ pc' = "get_boot_info"
    /\ UNCHANGED <<inputVars, portVars, op, result, baud_rate, boot_info, hsTry,
                   loaderVars, segVars, dumpVars, log, rx, dev>>

\* BootRom::get_boot_info, and the end of Flasher::connect
get_boot_info ==
    /\ pc = "get_boot_info"
    /\ LET c == IF chip = "BL602" THEN BootInfoReq ELSE BootInfoReqV2 IN
       \E reply \in BootInfoReplies :
         LET r == command(rx \o reply, c) IN
         /\ log' = Append(log, FrameEntry(c, reply, r, 0))
         /\ rx' = r.rx
         /\ result' = r.err
         /\ IF r.err = NoErr
            THEN /\ boot_info' = IF chip = "BL602" THEN to_v2(r.val) ELSE r.val
                 /\ pc' = "idle"
            ELSE /\ pc' = "failed"
                 /\ UNCHANGED boot_info
    /\ UNCHANGED <<inputVars, portVars, op, baud_rate, timeout, hsTry,
                   loaderVars, segVars, dumpVars, dev>>

\* ------------------------------------------------ the Flasher's operations
\* an operation returns to its caller
Return(e) ==
    /\ pc' = "idle"
    /\ result' = e

\* Flasher::load_segments is called
load_segments ==
    /\ pc = "idle"
    /\ force' \in BOOLEAN
    /\ segs' = <<>>
    /\ op' = "load_segments"
    /\ pc' = "load_boot_header"
    /\ reader' = 0
    /\ segIdx' = 0
    /\ segReader' = 0
    /\ cur' = 0
    /\ range' = [start |-> 0, end |-> 0]
    /\ written' = 0
    /\ log' = <<>>
    /\ UNCHANGED <<inputVars, portVars, connVars, result, rx, dev>>

\* Flasher::check_segments is called
check_segments ==
    /\ pc = "idle"
    /\ segs' = <<>>
    /\ force' = FALSE
    /\ op' = "check_segments"
    /\ pc' = "load_boot_header"
    /\ reader' = 0
    /\ segIdx' = 0
    /\ segReader' = 0
    /\ cur' = 0
    /\ range' = [start |-> 0, end |-> 0]
    /\ written' = 0
    /\ log' = <<>>
    /\ UNCHANGED <<inputVars, portVars, connVars, result, rx, dev>>

\* Flasher::dump_flash is called
dump_flash ==
    /\ pc = "idle"
    /\ range' \in Ranges
    /\ segs' = <<>>
    /\ force' = FALSE
    /\ op' = "dump_flash"
    /\ pc' = "load_boot_header"
    /\ reader' = 0
    /\ segIdx' = 0
    /\ segReader' = 0
    /\ cur' = 0
    /\ written' = 0
    /\ log' = <<>>
    /\ UNCHANGED <<inputVars, portVars, connVars, result, rx, dev>>

\* ------------------------------------------------------ load_eflash_loader
\* a load_boot_header that sends its buffer although the blob is too short
load_boot_header_short_read ==
    /\ pc = "load_boot_header"
    /\ IF FALSE
       THEN /\ Return(IOErr)
            /\ UNCHANGED <<reader, log, rx>>
       ELSE LET c == LoadBootHeader(LOAD_BOOT_HEADER_LEN) IN
            \E reply \in StatusReplies :
              LET r == command(rx \o reply, c) IN
              /\ reader' = reader + LOAD_BOOT_HEADER_LEN
              /\ log' = Append(log, FrameEntry(c, reply, r, 0))
              /\ rx' = r.rx
              /\ IF r.err = NoErr
                 THEN /\ pc' = "load_segment_header"
                      /\ UNCHANGED result
                 ELSE Return(r.err)
    /\ UNCHANGED <<inputVars, portVars, connVars, op, segVars, dumpVars, dev>>

\* BootRom::load_boot_header
load_boot_header ==
    /\ pc = "load_boot_header"
    /\ IF loaderLen - reader < LOAD_BOOT_HEADER_LEN
       THEN \* reader.read_exact fails
            /\ Return(IOErr)
            /\ UNCHANGED <<reader, log, rx>>
       ELSE LET c == LoadBootHeader(LOAD_BOOT_HEADER_LEN) IN
            \E reply \in StatusReplies :
              LET r == command(rx \o reply, c) IN
              /\ reader' = reader + LOAD_BOOT_HEADER_LEN
              /\ log' = Append(log, FrameEntry(c, reply, r, 0))
              /\ rx' = r.rx
              /\ IF r.err = NoErr
                 THEN /\ pc' = "load_segment_header"
                      /\ UNCHANGED result
                 ELSE Return(r.err)
    /\ UNCHANGED <<inputVars, portVars, connVars, op, segVars, dumpVars, dev>>

\* a load_segment_header that fails when the echo differs
load_segment_header_strict ==
    /\ pc = "load_segment_header"
    /\ IF loaderLen - reader < LOAD_SEGMENT_HEADER_LEN
       THEN /\ Return(IOErr)
            /\ UNCHANGED <<reader, log, rx>>
       ELSE LET c == LoadSegmentHeaderReq(LOAD_SEGMENT_HEADER_LEN) IN
            \E reply \in SegmentHeaderReplies :
              LET r == command(rx \o reply, c) IN
              /\ reader' = reader + LOAD_SEGMENT_HEADER_LEN
              /\ log' = Append(log, FrameEntry(c, reply, r, 0))
              /\ rx' = r.rx
              /\ IF r.err # NoErr THEN Return(r.err)
                 ELSE IF r.val # SegmentHeaderBytes THEN Return(RespError)
                 ELSE /\ pc' = "load_segment_data"
                      /\ UNCHANGED result
    /\ UNCHANGED <<inputVars, portVars, connVars, op, segVars, dumpVars, dev>>

\* BootRom::load_segment_header
load_segment_header ==
    /\ pc = "load_segment_header"
    /\ IF loaderLen - reader < LOAD_SEGMENT_HEADER_LEN
       THEN /\ Return(IOErr)
            /\ UNCHANGED <<reader, log, rx>>
       ELSE LET c == LoadSegmentHeaderReq(LOAD_SEGMENT_HEADER_LEN) IN
            \E reply \in SegmentHeaderReplies :
              LET r == command(rx \o reply, c) IN
              /\ reader' = reader + LOAD_SEGMENT_HEADER_LEN
              /\ log' = Append(log, FrameEntry(c, reply, r, 0))
              /\ rx' = r.rx
              /\ IF r.err = NoErr
                 THEN \* resp.data # segment_header is only warned about
                      /\ pc' = "load_segment_data"
                      /\ UNCHANGED result
                 ELSE Return(r.err)
    /\ UNCHANGED <<inputVars, portVars, connVars, op, segVars, dumpVars, dev>>

\* a read that fills the buffer whenever a byte is left
read_fills_buffer(total, pos, buflen) == IF pos < total THEN buflen ELSE 0

\* reader.read(&mut buf) on a Cursor: the bytes left, at most the buffer
read(total, pos, buflen) == Min(buflen, total - pos)

\* load_segment_data sending the empty last read as a frame of its own
load_segment_data_sends_empty ==
    /\ pc = "load_segment_data"
    /\ LET n == read(loaderLen, reader, SEGMENT_DATA_CHUNK)
           c == LoadSegmentData(n) IN
       \E reply \in StatusReplies :
         LET r == command(rx \o reply, c) IN
         /\ reader' = reader + n
         /\ log' = Append(log, FrameEntry(c, reply, r, 0))
         /\ rx' = r.rx
         /\ IF r.err # NoErr THEN Return(r.err)
            ELSE /\ pc' = IF n = 0 THEN "check_image" ELSE pc
                 /\ UNCHANGED result
    /\ UNCHANGED <<inputVars, portVars, connVars, op, segVars, dumpVars, dev>>

\* BootRom::load_segment_data, one turn of the loop of load_eflash_loader
load_segment_data ==
    /\ pc = "load_segment_data"
    /\ LET n == read(loaderLen, reader, SEGMENT_DATA_CHUNK) IN
       IF n = 0
       THEN \* Ok(0): the loop breaks
            /\ pc' = "check_image"
            /\ UNCHANGED <<reader, log, rx, result>>
       ELSE LET c == LoadSegmentData(n) IN
            \E reply \in StatusReplies :
              LET r == command(rx \o reply, c) IN
              /\ reader' = reader + n
              /\ log' = Append(log, FrameEntry(c, reply, r, 0))
              /\ rx' = r.rx
              /\ IF r.err = NoErr
                 THEN UNCHANGED <<pc, result>>
                 ELSE Return(r.err)
    /\ UNCHANGED <<inputVars, portVars, connVars, op, segVars, dumpVars, dev>>

\* check_image with its error dropped instead of returned
check_image_unchecked ==
    /\ pc = "check_image"
    /\ \E reply \in StatusReplies :
         LET r == command(rx \o reply, CheckImage) IN
         /\ log' = Append(log, FrameEntry(CheckImage, reply, r, 0))
         /\ rx' = r.rx
         /\ pc' = "run_image"
         /\ UNCHANGED result
    /\ UNCHANGED <<inputVars, portVars, connVars, op, loaderVars, segVars, dumpVars, dev>>

\* BootRom::check_image
check_image ==
    /\ pc = "check_image"
    /\ \E reply \in StatusReplies :
         LET r == command(rx \o reply, CheckImage) IN
         /\ log' = Append(log, FrameEntry(CheckImage, reply, r, 0))
         /\ rx' = r.rx
         /\ IF r.err = NoErr
            THEN /\ pc' = "run_image"
                 /\ UNCHANGED result
            ELSE Return(r.err)
    /\ UNCHANGED <<inputVars, portVars, connVars, op, loaderVars, segVars, dumpVars, dev>>

\* BootRom::run_image.  The device jumps to the uploaded loader when it
\* accepts the command, which is when it answers OK.
run_image ==
    /\ pc = "run_image"
    /\ \E reply \in StatusReplies :
         LET r == command(rx \o reply, RunImage) IN
         /\ log' = Append(log, FrameEntry(RunImage, reply, r, 0))
         /\ rx' = r.rx
         /\ dev' = IF reply = OK THEN "loader" ELSE dev
         /\ IF r.err = NoErr
            THEN /\ pc' = "set_baud"
                 /\ UNCHANGED result
            ELSE Return(r.err)
    /\ UNCHANGED <<inputVars, portVars, connVars, op, loaderVars, segVars, dumpVars>>

\* load_eflash_loader without its set_baud
loader_set_baud_missing ==
    /\ pc = "set_baud"
    /\ pc' = "handshake"
    /\ UNCHANGED <<inputVars, portVars, op, result, baud_rate, timeout, boot_info, hsTry,
                   loaderVars, segVars, dumpVars, log, rx, dev>>

\* load_eflash_loader: sleep(500 ms); connection.set_baud(flash_speed)
loader_set_baud ==
    /\ pc = "set_baud"
    /\ baud_rate' = FlashBaud
    /\ log' = Append(log, Entry("set_baud", 0, <<>>, <<FlashBaud>>, 0, <<>>, NoErr, <<>>, 0, 0))
    /\ pc' = "handshake"
    /\ UNCHANGED <<inputVars, portVars, op, result, timeout, boot_info, hsTry,
                   loaderVars, segVars, dumpVars, rx, dev>>

\* where the operation goes on after load_eflash_loader returned Ok
AfterLoader ==
    CASE op = "load_segments" -> "segment"
      [] op = "check_segments" -> "check"
      [] OTHER -> "dump"

\* load_eflash_loader with the result of its handshake dropped
loader_handshake_unchecked ==
    /\ pc = "handshake"
    /\ \E reply \in LoaderBurstReplies :
         LET h == handshake(rx \o reply.now) IN
         /\ log' = Append(log, BurstEntry(rx \o reply.now, h))
         /\ rx' = h.rx \o reply.late
         /\ timeout' = with_timeout(timeout, HANDSHAKE_TIMEOUT_MS)
         /\ pc' = AfterLoader
         /\ cur' = range.start
         /\ UNCHANGED result
    /\ UNCHANGED <<inputVars, portVars, op, baud_rate, boot_info, hsTry, loaderVars,
                   segs, force, segIdx, segReader, dumpVars, dev>>

\* load_eflash_loader: self.handshake()?
loader_handshake ==
    /\ pc = "handshake"
    /\ \E reply \in LoaderBurstReplies :
         LET h == handshake(rx \o reply.now) IN
         /\ log' = Append(log, BurstEntry(rx \o reply.now, h))
         /\ rx' = h.rx \o reply.late
         /\ timeout' = with_timeout(timeout, HANDSHAKE_TIMEOUT_MS)
         /\ IF h.err = NoErr
            THEN /\ pc' = AfterLoader
                 /\ cur' = range.start
                 /\ UNCHANGED result
            ELSE /\ Return(h.err)
                 /\ UNCHANGED cur
    /\ UNCHANGED <<inputVars, portVars, op, baud_rate, boot_info, hsTry, loaderVars,
                   segs, force, segIdx, segReader, dumpVars, dev>>

\* ----------------------------------------------------------- load_segments
\* for segment in segments: the iterator ends or gives the next segment
segment_next ==
    /\ pc = "segment"
    /\ \/ /\ Return(NoErr)
          /\ UNCHANGED <<segs, segIdx>>
       \/ /\ Len(segs) < MaxSegs
          /\ \E segment \in NextSegments(segs) : segs' = Append(segs, segment)
          /\ segIdx' = Len(segs) + 1
          /\ pc' = IF force THEN "flash_erase" ELSE "sha256_read"
          /\ UNCHANGED result
    /\ UNCHANGED <<inputVars, portVars, connVars, op, loaderVars, force, segReader, cur,
                   dumpVars, log, rx, dev>>

\* the initial sha256_read without the skip of a matching segment
segment_sha256_read_no_skip ==
    /\ pc = "sha256_read"
    /\ LET segment == segs[segIdx]
           c == Sha256Read(segment.addr, size(segment)) IN
       \E reply \in Sha256Replies(segment) :
         LET r == command(rx \o reply, c) IN
         /\ log' = Append(log, FrameEntry(c, reply, r, segIdx))
         /\ rx' = r.rx
         /\ IF r.err # NoErr THEN Return(r.err)
            ELSE /\ pc' = "flash_erase"
                 /\ UNCHANGED result
    /\ UNCHANGED <<inputVars, portVars, connVars, op, loaderVars, segVars, dumpVars, dev>>

\* load_segments: skip segment if the contents are matched
segment_sha256_read ==
    /\ pc = "sha256_read"
    /\ LET segment == segs[segIdx]
           c == Sha256Read(segment.addr, size(segment)) IN
       \E reply \in Sha256Replies(segment) :
         LET r == command(rx \o reply, c) IN
         /\ log' = Append(log, FrameEntry(c, reply, r, segIdx))
         /\ rx' = r.rx
         /\ IF r.err # NoErr THEN Return(r.err)
            ELSE /\ pc' = IF r.val = Sha256_digest(segment) THEN "segment"
                          ELSE "flash_erase"
                 /\ UNCHANGED result
    /\ UNCHANGED <<inputVars, portVars, connVars, op, loaderVars, segVars, dumpVars, dev>>

\* a flash_erase that is sent again when it failed
segment_flash_erase_retries ==
    /\ pc = "flash_erase"
    /\ LET segment == segs[segIdx]
           c == FlashErase(segment.addr, segment.addr + size(segment)) IN
       \E reply \in StatusReplies :
         LET r == command(rx \o reply, c) IN
         /\ log' = Append(log, FrameEntry(c, reply, r, segIdx))
         /\ rx' = r.rx
         /\ IF r.err # NoErr
            THEN UNCHANGED <<pc, result, segReader, cur>>
            ELSE /\ pc' = "flash_program"
                 /\ segReader' = 0
                 /\ cur' = segment.addr
                 /\ UNCHANGED result
    /\ UNCHANGED <<inputVars, portVars, connVars, op, loaderVars, segs, force, segIdx,
                   dumpVars, dev>>

\* load_segments: flash_erase(segment.addr, segment.addr + segment.size())
segment_flash_erase ==
    /\ pc = "flash_erase"
    /\ LET segment == segs[segIdx]
           c == FlashErase(segment.addr, segment.addr + size(segment)) IN
       \E reply \in StatusReplies :
         LET r == command(rx \o reply, c) IN
         /\ log' = Append(log, FrameEntry(c, reply, r, segIdx))
         /\ rx' = r.rx
         /\ IF r.err # NoErr
            THEN /\ Return(r.err)
                 /\ UNCHANGED <<segReader, cur>>
            ELSE /\ pc' = "flash_program"
                 /\ segReader' = 0
                 /\ cur' = segment.addr
                 /\ UNCHANGED result
    /\ UNCHANGED <<inputVars, portVars, connVars, op, loaderVars, segs, force, segIdx,
                   dumpVars, dev>>

\* the program loop with the error of flash_program dropped
segment_flash_program_unchecked ==
    /\ pc = "flash_program"
    /\ LET n == read(segs[segIdx].len, segReader, PROGRAM_CHUNK) IN
       IF n = 0
       THEN /\ pc' = "verify"
            /\ UNCHANGED <<segReader, cur, log, rx, result>>
       ELSE LET c == FlashProgram(cur, n) IN
            \E reply \in StatusReplies :
              LET r == command(rx \o reply, c) IN
              /\ segReader' = segReader + n
              /\ log' = Append(log, FrameEntry(c, reply, r, segIdx))
              /\ rx' = r.rx
              /\ cur' = cur + n
              /\ UNCHANGED <<pc, result>>
    /\ UNCHANGED <<inputVars, portVars, connVars, op, loaderVars, segs, force, segIdx,
                   dumpVars, dev>>

\* EflashLoader::flash_program, one turn of the loop of load_segments
segment_flash_program ==
    /\ pc = "flash_program"
    /\ LET n == read(segs[segIdx].len, segReader, PROGRAM_CHUNK) IN
       IF n = 0
       THEN \* Ok(0): the loop breaks
            /\ pc' = "verify"
            /\ UNCHANGED <<segReader, cur, log, rx, result>>
       ELSE LET c == FlashProgram(cur, n) IN
            \E reply \in StatusReplies :
              LET r == command(rx \o reply, c) IN
              /\ segReader' = segReader + n
              /\ log' = Append(log, FrameEntry(c, reply, r, segIdx))
              /\ rx' = r.rx
              /\ IF r.err # NoErr
                 THEN /\ Return(r.err)
                      /\ UNCHANGED cur
                 ELSE /\ cur' = cur + n
                      /\ UNCHANGED <<pc, result>>
    /\ UNCHANGED <<inputVars, portVars, connVars, op, loaderVars, segs, force, segIdx,
                   dumpVars, dev>>

\* the sha256_read after programming with a differing digest made an error
segment_verify_strict ==
    /\ pc = "verify"
    /\ LET segment == segs[segIdx]
           c == Sha256Read(segment.addr, size(segment)) IN
       \E reply \in Sha256Replies(segment) :
         LET r == command(rx \o reply, c) IN
         /\ log' = Append(log, FrameEntry(c, reply, r, segIdx))
         /\ rx' = r.rx
         /\ IF r.err # NoErr THEN Return(r.err)
            ELSE IF r.val # Sha256_digest(segment) THEN Return(RespError)
            ELSE /\ pc' = "segment"
                 /\ UNCHANGED result
    /\ UNCHANGED <<inputVars, portVars, connVars, op, loaderVars, segVars, dumpVars, dev>>

\* load_segments: the sha256_read after programming; a digest that differs
\* is only warned about
segment_verify ==
    /\ pc = "verify"
    /\ LET segment == segs[segIdx]
           c == Sha256Read(segment.addr, size(segment)) IN
       \E reply \in Sha256Replies(segment) :
         LET r == command(rx \o reply, c) IN
         /\ log' = Append(log, FrameEntry(c, reply, r, segIdx))
         /\ rx' = r.rx
         /\ IF r.err # NoErr THEN Return(r.err)
            ELSE /\ pc' = "segment"
                 /\ UNCHANGED result
    /\ UNCHANGED <<inputVars, portVars, connVars, op, loaderVars, segVars, dumpVars, dev>>

\* ---------------------------------------------------------- check_segments
\* check_segments returning an error for a digest that differs
check_next_strict ==
    /\ pc = "check"
    /\ \/ /\ Return(NoErr)
          /\ UNCHANGED <<segs, segIdx, log, rx>>
       \/ /\ Len(segs) < MaxSegs
          /\ \E segment \in NextSegments(segs) :
               LET c == Sha256Read(segment.addr, size(segment)) IN
               \E reply \in Sha256Replies(segment) :
                 LET r == command(rx \o reply, c) IN
                 /\ segs' = Append(segs, segment)
                 /\ segIdx' = Len(segs) + 1
                 /\ log' = Append(log, FrameEntry(c, reply, r, Len(segs) + 1))
                 /\ rx' = r.rx
                 /\ IF r.err # NoErr THEN Return(r.err)
                    ELSE IF r.val # Sha256_digest(segment) THEN Return(RespError)
                    ELSE UNCHANGED <<pc, result>>
    /\ UNCHANGED <<inputVars, portVars, connVars, op, loaderVars, force, segReader, cur,
                   dumpVars, dev>>

\* check_segments: one turn of for segment in segments
check_next ==
    /\ pc = "check"
    /\ \/ /\ Return(NoErr)
          /\ UNCHANGED <<segs, segIdx, log, rx>>
       \/ /\ Len(segs) < MaxSegs
          /\ \E segment \in NextSegments(segs) :
               LET c == Sha256Read(segment.addr, size(segment)) IN
               \E reply \in Sha256Replies(segment) :
                 LET r == command(rx \o reply, c) IN
                 /\ segs' = Append(segs, segment)
                 /\ segIdx' = Len(segs) + 1
                 /\ log' = Append(log, FrameEntry(c, reply, r, Len(segs) + 1))
                 /\ rx' = r.rx
                 /\ IF r.err # NoErr THEN Return(r.err)
                    ELSE UNCHANGED <<pc, result>>
    /\ UNCHANGED <<inputVars, portVars, connVars, op, loaderVars, force, segReader, cur,
                   dumpVars, dev>>

\* -------------------------------------------------------------- dump_flash
\* a dump_flash that asks for a whole block at every turn
dump_read_whole_blocks ==
    /\ pc = "dump"
    /\ IF cur >= range.end
       THEN /\ Return(NoErr)
            /\ UNCHANGED <<cur, written, log, rx>>
       ELSE /\ Cardinality({i \in 1..Len(log) : log[i].id = 50}) < MaxDumpReads
            /\ LET n == BLOCK_SIZE
                   c == FlashRead(cur, n) IN
               \E reply \in FlashReadReplies(n) :
                 LET r == command(rx \o reply, c) IN
                 /\ log' = Append(log, FrameEntry(c, reply, r, 0))
                 /\ rx' = r.rx
                 /\ IF r.err # NoErr
                    THEN /\ Return(r.err)
                         /\ UNCHANGED <<cur, written>>
                    ELSE /\ written' = written + Len(r.val)
                         /\ cur' = cur + Len(r.val)
                         /\ UNCHANGED <<pc, result>>
    /\ UNCHANGED <<inputVars, portVars, connVars, op, loaderVars, segs, force, segIdx, segReader, range, dev>>

\* dump_flash: one test of while cur < range.end, and the turn it allows
dump_read ==
    /\ pc = "dump"
    /\ IF cur >= range.end
       THEN /\ Return(NoErr)
            /\ UNCHANGED <<cur, written, log, rx>>
       ELSE /\ Cardinality({i \in 1..Len(log) : log[i].id = 50}) < MaxDumpReads
            /\ LET n == Min(range.end - cur, BLOCK_SIZE)
                   c == FlashRead(cur, n) IN
               \E reply \in FlashReadReplies(n) :
                 LET r == command(rx \o reply, c) IN
                 /\ log' = Append(log, FrameEntry(c, reply, r, 0))
                 /\ rx' = r.rx
                 /\ IF r.err # NoErr
                    THEN /\ Return(r.err)
                         /\ UNCHANGED <<cur, written>>
                    ELSE /\ written' = written + Len(r.val)
                         /\ cur' = cur + Len(r.val)
                         /\ UNCHANGED <<pc, result>>
    /\ UNCHANGED <<inputVars, portVars, connVars, op, loaderVars, segs, force, segIdx, segReader, range, dev>>

Next ==
    \/ connect_set_baud
    \/ start_connection
    \/ connect_handshake
    \/ connect_set_timeout
    \/ get_boot_info
    \/ load_segments
    \/ check_segments
    \/ load_boot_header
    \/ load_segment_header
    \/ load_segment_data
    \/ check_image
    \/ run_image
    \/ loader_set_baud
    \/ loader_handshake
    \/ segment_next
    \/ segment_sha256_read
    \/ segment_flash_erase
    \/ segment_flash_program
    \/ segment_verify
    \/ check_next
    \/ dump_flash
    \/ dump_read

Spec == Init /\ [][Next]_vars

\* ------------------------------------------- read_response on its own
\* what the port may hold when read_response is called: any two bytes, FL
\* followed by any u16 code, and OK followed by a two-byte payload
ResponseInputs ==
    {<<a, b>> : a \in Byte, b \in Byte} \cup
    {FL \o <<c, d>> : c \in Byte, d \in Byte} \cup
    {OK \o <<1, 0>>}

\* a Connection whose port has received one of these inputs
InitResp ==
    /\ chip = "BL602"
    /\ loaderLen = 0
    /\ pc = "read_response"
    /\ op = "read_response"
    /\ result = NoErr
    /\ baud_rate = InitialBaud
    /\ timeout = 0
    /\ boot_info = BootInfoV2_default
    /\ hsTry = 0
    /\ reader = 0
    /\ segs = <<>>
    /\ force = FALSE
    /\ segIdx = 0
    /\ segReader = 0
    /\ cur = 0
    /\ range = [start |-> 0, end |-> 0]
    /\ written = 0
    /\ log = <<>>
    /\ rx \in ResponseInputs
    /\ dev = "rom"
    /\ reset_pin = DefaultResetPin
    /\ boot_pin = DefaultBootPin
    /\ rts = FALSE
    /\ dtr = TRUE
    /\ pinlog = <<>>
    /\ old_timeout = 0

\* one call of Connection::read_response(len), as command makes it: len is
\* 0 for a command without response payload and 2 otherwise
call_read_response ==
    /\ pc = "read_response"
    /\ \E len \in {0, 2} :
         LET r == read_response(rx, len) IN
         /\ log' = Append(log, Entry("read_response", 0, <<>>, <<len>>, 0, rx,
                                     r.err, r.data, 1, 0))
         /\ rx' = r.rx
         /\ result' = r.err
    /\ pc' = "done"
    /\ UNCHANGED <<inputVars, portVars, connVars, op, loaderVars, segVars, dumpVars, dev>>

NextResp == call_read_response

SpecResp == InitResp /\ [][NextResp]_vars

\* -------------------------------------------- with_timeout on its own
\* what serial.timeout() may be on a freshly opened port
PortTimeouts == {0, 100, 1000}

\* the timeouts with_timeout is called with: the 200 ms of handshake, and
\* another one
ScopedTimeouts == {HANDSHAKE_TIMEOUT_MS, 50}

\* what the closure may return
ClosureResults == {NoErr, TimeoutErr, IOErr}

\* a Connection on a freshly opened port
InitTimeout ==
    /\ chip = "BL602"
    /\ loaderLen = 0
    /\ pc = "t_idle"
    /\ op = "with_timeout"
    /\ result = NoErr
    /\ baud_rate = 0
    /\ timeout \in PortTimeouts
    /\ boot_info = BootInfoV2_default
    /\ hsTry = 0
    /\ reader = 0
    /\ segs = <<>>
    /\ force = FALSE
    /\ segIdx = 0
    /\ segReader = 0
    /\ cur = 0
    /\ range = [start |-> 0, end |-> 0]
    /\ written = 0
    /\ log = <<>>
    /\ rx = <<>>
    /\ dev = "app"
    /\ reset_pin = DefaultResetPin
    /\ boot_pin = DefaultBootPin
    /\ rts = FALSE
    /\ dtr = TRUE
    /\ pinlog = <<>>
    /\ old_timeout = 0

timeoutFrame == <<inputVars, reset_pin, boot_pin, rts, dtr, pinlog, op, baud_rate,
                  boot_info, hsTry, loaderVars, segVars, dumpVars, rx, dev>>

\* Connection::set_timeout, as Flasher::connect calls it
set_timeout ==
    /\ pc = "t_idle"
    /\ timeout # CONNECT_TIMEOUT_MS
    /\ timeout' = CONNECT_TIMEOUT_MS
    /\ log' = Append(log, Entry("set_timeout", 0, <<>>, <<CONNECT_TIMEOUT_MS>>, 0, <<>>,
                                NoErr, <<>>, 0, 0))
    /\ UNCHANGED <<pc, result, old_timeout>>
    /\ UNCHANGED timeoutFrame

\* Connection::with_timeout: old_timeout = serial.timeout();
\* serial.set_timeout(timeout)
with_timeout_set ==
    /\ pc = "t_idle"
    /\ Cardinality({i \in 1..Len(log) : log[i].ev = "with_timeout"}) < MaxCalls
    /\ \E d \in ScopedTimeouts :
         /\ old_timeout' = timeout
         /\ timeout' = d
         /\ log' = Append(log, Entry("with_timeout", 0, <<>>, <<timeout, d>>, 0, <<>>,
                                     NoErr, <<>>, 0, 0))
    /\ pc' = "t_closure"
    /\ UNCHANGED result
    /\ UNCHANGED timeoutFrame

\* Connection::with_timeout: result = f(self)
with_timeout_closure ==
    /\ pc = "t_closure"
    /\ result' \in ClosureResults
    /\ log' = Append(log, Entry("closure", 0, <<>>, <<timeout>>, 0, <<>>, result', <<>>, 0, 0))
    /\ pc' = "t_restore"
    /\ UNCHANGED <<timeout, old_timeout>>
    /\ UNCHANGED timeoutFrame

\* with_timeout returning the closure's error before it restores
with_timeout_restore_on_ok ==
    /\ pc = "t_restore"
    /\ timeout' = IF result = NoErr THEN old_timeout ELSE timeout
    /\ log' = Append(log, Entry("returned", 0, <<>>, <<timeout'>>, 0, <<>>, result, <<>>, 0, 0))
    /\ pc' = "t_idle"
    /\ UNCHANGED <<result, old_timeout>>
    /\ UNCHANGED timeoutFrame

\* Connection::with_timeout: serial.set_timeout(old_timeout); result
with_timeout_restore ==
    /\ pc = "t_restore"
    /\ timeout' = old_timeout
    /\ log' = Append(log, Entry("returned", 0, <<>>, <<timeout'>>, 0, <<>>, result, <<>>, 0, 0))
    /\ pc' = "t_idle"
    /\ UNCHANGED <<result, old_timeout>>
    /\ UNCHANGED timeoutFrame

NextTimeout ==
    \/ set_timeout
    \/ with_timeout_set
    \/ with_timeout_closure
    \/ with_timeout_restore

SpecTimeout == InitTimeout /\ [][NextTimeout]_vars

\* ------------------------------------------------- the reset command
\* pin expressions a user may pass: the three names plain and inverted,
\* a doubled '!', an unknown name, the empty string and a lone '!'
PinExprs ==
    {Rts, Dtr, Null, Bang(Rts), Bang(Dtr), Bang(Null), Bang(Bang(Rts)),
     <<"c", "t", "s">>, <<>>, Bang(<<>>)}

\* lib.rs reset: Connection::new on an opened port
InitPins ==
    /\ chip = "BL602"
    /\ loaderLen = 0
    /\ pc = "reset"
    /\ op = "reset"
    /\ result = NoErr
    /\ baud_rate = 0
    /\ timeout = 0
    /\ boot_info = BootInfoV2_default
    /\ hsTry = 0
    /\ reader = 0
    /\ segs = <<>>
    /\ force = FALSE
    /\ segIdx = 0
    /\ segReader = 0
    /\ cur = 0
    /\ range = [start |-> 0, end |-> 0]
    /\ written = 0
    /\ log = <<>>
    /\ rx = <<>>
    /\ dev = "app"
    /\ reset_pin \in PinExprs
    /\ boot_pin \in PinExprs
    /\ rts \in BOOLEAN
    /\ dtr \in BOOLEAN
    /\ pinlog = <<>>
    /\ old_timeout = 0

pinsFrame == <<inputVars, reset_pin, boot_pin, old_timeout, baud_rate, timeout,
               boot_info, hsTry, loaderVars, segVars, dumpVars, log, rx>>

\* what the reset command does with the result r of its pin sequence:
\* expect("reset error") panics on an error
reset_done(r, loader) ==
    /\ rts' = r.rts
    /\ dtr' = r.dtr
    /\ pinlog' = r.pinlog
    /\ result' = r.err
    /\ op' = IF loader THEN "reset_to_flash" ELSE "reset"
    /\ pc' = IF r.err = NoErr THEN "done" ELSE "panic"
    /\ dev' = IF r.err # NoErr THEN dev ELSE IF loader THEN "rom" ELSE "app"

\* lib.rs reset with opt.loader unset: conn.reset()
reset_command ==
    /\ pc = "reset"
    /\ \E failAt \in 0..Len(reset_calls) :
         reset_done(reset([err |-> NoErr, rts |-> rts, dtr |-> dtr, pinlog |-> pinlog],
                          [reset |-> reset_pin, boot |-> boot_pin], failAt), FALSE)
    /\ UNCHANGED pinsFrame

\* lib.rs reset with opt.loader set: conn.reset_to_flash()
reset_to_flash_command ==
    /\ pc = "reset"
    /\ \E failAt \in 0..Len(reset_to_flash_calls) :
         reset_done(reset_to_flash([err |-> NoErr, rts |-> rts, dtr |-> dtr, pinlog |-> pinlog],
                                   [reset |-> reset_pin, boot |-> boot_pin], failAt), TRUE)
    /\ UNCHANGED pinsFrame

NextPins ==
    \/ reset_command
    \/ reset_to_flash_command

SpecPins == InitPins /\ [][NextPins]_vars

\* ------------------------------------------------------- the flash command
\* lib.rs flash: create_flasher (Flasher::connect), get_segments,
\* load_segments, reset, each ended by `?`.  A failed connect leaves pc at
\* "failed", a failed load_segments leaves its error in result; flash then
\* returns and no step is left.

\* flash: opt.boot.get_segments fails, flash returns its error
flash_get_segments_fails ==
    /\ op = "connect" /\ pc = "idle"
    /\ op' = "flash"
    /\ pc' = "done"
    /\ result' = IOErr
    /\ UNCHANGED <<inputVars, portVars, connVars, loaderVars, segVars, dumpVars, log, rx, dev>>

\* flash: flasher.load_segments(opt.force, segments)
flash_load_segments ==
    /\ op = "connect"
    /\ load_segments

\* what flash does with the result r of reset()
flash_reset_done(r) ==
    /\ rts' = r.rts
    /\ dtr' = r.dtr
    /\ pinlog' = r.pinlog
    /\ log' = Append(log, Entry("reset", 0, <<>>, <<>>, 0, <<>>, r.err, <<>>, 0, 0))
    /\ result' = r.err
    /\ op' = "flash"
    /\ pc' = "done"
    /\ dev' = IF r.err = NoErr THEN "app" ELSE dev
    /\ UNCHANGED <<inputVars, reset_pin, boot_pin, old_timeout, connVars, loaderVars,
                   segVars, dumpVars, rx>>

\* a flash that resets the device whatever load_segments returned
flash_reset_always ==
    /\ op = "load_segments" /\ pc = "idle"
    /\ \E failAt \in 0..Len(reset_calls) :
         flash_reset_done(reset([err |-> NoErr, rts |-> rts, dtr |-> dtr, pinlog |-> pinlog],
                                [reset |-> reset_pin, boot |-> boot_pin], failAt))

\* flash: flasher.reset(), reached when load_segments returned Ok
flash_reset ==
    /\ op = "load_segments" /\ pc = "idle" /\ result = NoErr
    /\ \E failAt \in 0..Len(reset_calls) :
         flash_reset_done(reset([err |-> NoErr, rts |-> rts, dtr |-> dtr, pinlog |-> pinlog],
                                [reset |-> reset_pin, boot |-> boot_pin], failAt))

NextFlash ==
    \/ connect_set_baud
    \/ start_connection
    \/ connect_handshake
    \/ connect_set_timeout
    \/ get_boot_info
    \/ flash_get_segments_fails
    \/ flash_load_segments
    \/ load_boot_header
    \/ load_segment_header
    \/ load_segment_data
    \/ check_image
    \/ run_image
    \/ loader_set_baud
    \/ loader_handshake
    \/ segment_next
    \/ segment_sha256_read
    \/ segment_flash_erase
    \/ segment_flash_program
    \/ segment_verify
    \/ flash_reset

SpecFlash == Init /\ [][NextFlash]_vars


\* ------------------------------------------------- the training burst
\* Connection::set_baud and Connection::calc_duration_length on their own:
\* the baud rates of serial::BaudRate, rates around 10000 and the rates
\* the flasher is used with; the log holds the last call.
Speeds ==
    {110, 300, 600, 1200, 2400, 4800, 9600, 9999, 10000, 19200, 19999, 20000,
     38400, 57600, 115200, 230400, 460800, 500000, 921600, 1000000, 2000000}
Durations == {0, 1, HANDSHAKE_BURST_MS, HANDSHAKE_TIMEOUT_MS, 1000}

\* a Connection on a freshly opened port: baud_rate is None
InitBurst ==
    /\ chip = "BL602"
    /\ loaderLen = 0
    /\ pc = "b_idle"
    /\ op = "calc_duration_length"
    /\ result = NoErr
    /\ baud_rate = 0
    /\ timeout = 0
    /\ boot_info = BootInfoV2_default
    /\ hsTry = 0
    /\ reader = 0
    /\ segs = <<>>
    /\ force = FALSE
    /\ segIdx = 0
    /\ segReader = 0
    /\ cur = 0
    /\ range = [start |-> 0, end |-> 0]
    /\ written = 0
    /\ log = <<>>
    /\ rx = <<>>
    /\ dev = "app"
    /\ reset_pin = DefaultResetPin
    /\ boot_pin = DefaultBootPin
    /\ rts = FALSE
    /\ dtr = TRUE
    /\ pinlog = <<>>
    /\ old_timeout = 0

burstFrame == <<inputVars, portVars, pc, op, result, timeout, boot_info, hsTry,
                loaderVars, segVars, dumpVars, rx, dev>>

\* Connection::set_baud(speed)
set_baud ==
    /\ pc = "b_idle"
    /\ \E speed \in Speeds :
         /\ baud_rate' = speed
         /\ log' = <<Entry("set_baud", 0, <<>>, <<speed>>, 0, <<>>, NoErr, <<>>, 0, 0)>>
    /\ UNCHANGED burstFrame

\* Connection::calc_duration_length(duration)
call_calc_duration_length ==
    /\ pc = "b_idle"
    /\ \E d \in Durations :
         log' = <<Entry("calc_duration_length", 0, <<>>, <<d>>,
                        calc_duration_length(baud_rate, d), <<>>, NoErr, <<>>, 0, 0)>>
    /\ UNCHANGED <<baud_rate, burstFrame>>

\* Flasher::handshake: the burst of len bytes 0x55,
\* len = calc_duration_length(5 ms)
handshake_burst ==
    /\ pc = "b_idle"
    /\ log' = <<Entry("burst", 0, <<>>, <<HANDSHAKE_BURST_MS>>,
                       calc_duration_length(baud_rate, HANDSHAKE_BURST_MS),
                       <<>>, NoErr, <<>>, 0, 0)>>
    /\ UNCHANGED <<baud_rate, burstFrame>>

NextBurst ==
    \/ set_baud
    \/ call_calc_duration_length
    \/ handshake_burst

SpecBurst == InitBurst /\ [][NextBurst]_vars

\* ================================================================== claims
Frames == {i \in 1..Len(log) : log[i].ev = "frame"}
IsFrame(i, ids) == i \in Frames /\ log[i].id \in ids
InOperation == op \in {"load_segments", "check_segments", "dump_flash"}

\* C1 (as claimed): every Boot ROM frame (0x10, 0x11, 0x17, 0x18, 0x19,
\* 0x1a) is written while the device executes the boot ROM and every
\* eflash-loader frame (0x30, 0x31, 0x32, 0x3d) while it executes the
\* uploaded loader, whatever operations were run before on the Flasher.
C1_OneDriverLive ==
    \A i \in Frames :
        /\ log[i].id \in BootRomIds => log[i].dev = "rom"
        /\ log[i].id \in EflashLoaderIds => log[i].dev = "loader"

\* the rank of a Boot ROM upload command in the order of load_eflash_loader
UploadRank(id) ==
    CASE id = 17 -> 1 [] id = 23 -> 2 [] id = 24 -> 3 [] id = 25 -> 4
      [] id = 26 -> 5 [] OTHER -> 0

UploadFrames == {i \in Frames : log[i].id \in BootRomIds}
UploadDone == pc \in {"set_baud", "handshake", "segment", "sha256_read",
                      "flash_erase", "flash_program", "verify", "check", "dump"}

\* C2: in every run of load_eflash_loader the Boot ROM frames are the first
\* entries of the operation's log and come in the order 0x11 (176 bytes),
\* 0x17 (16 bytes), any number of 0x18, 0x19, 0x1a, each of 0x11, 0x17,
\* 0x19, 0x1a once in a run that got through; a frame is written only after
\* every earlier command returned success, so nothing follows a failure.
C2_UploadOrder ==
    InOperation =>
        /\ \A i \in UploadFrames :
             /\ \A j \in 1..(i - 1) : j \in UploadFrames /\ log[j].err = NoErr
             /\ i = 1 => log[i].id = 17
             /\ i > 1 => << UploadRank(log[i - 1].id), UploadRank(log[i].id) >> \in
                           {<<1, 2>>, <<2, 3>>, <<2, 4>>, <<3, 3>>, <<3, 4>>, <<4, 5>>}
             /\ log[i].id = 17 => log[i].data = 176 /\ log[i].hdr = <<17, 0, 176, 0>>
             /\ log[i].id = 23 => log[i].data = 16 /\ log[i].hdr = <<23, 0, 16, 0>>
        /\ \A i \in 1..Len(log) : log[i].err # NoErr => i = Len(log)
        /\ UploadDone =>
             /\ \A id \in {17, 23, 25, 26} :
                  Cardinality({i \in UploadFrames : log[i].id = id}) = 1
             /\ \A i \in UploadFrames : log[i].err = NoErr

\* C2 witness: an upload that sent two 0x18 frames and was run to the end
C2_Witness ==
    /\ InOperation /\ UploadDone
    /\ Cardinality({i \in UploadFrames : log[i].id = 24}) = 2

\* the baud rate the device expects: the initial rate while the boot ROM
\* runs, the flash rate while the loader runs
ExpectedBaud(d) == IF d = "loader" THEN FlashBaud ELSE InitialBaud

\* C3: whenever a command frame is written the port's baud rate is the one
\* the device expects, and set_baud happens only as the first port
\* operation of connect and directly after a run_image that returned
\* success (with the flash rate).
C3_BaudMatches ==
    /\ \A i \in Frames : log[i].baud = ExpectedBaud(log[i].dev)
    /\ \A i \in 1..Len(log) :
         log[i].ev = "set_baud" =>
            \/ op = "connect" /\ i = 1 /\ log[i].args = <<InitialBaud>>
            \/ /\ InOperation /\ i > 1
               /\ IsFrame(i - 1, {26}) /\ log[i - 1].err = NoErr
               /\ log[i].args = <<FlashBaud>>

\* C3 witness: an eflash-loader frame written at the flash rate
C3_Witness ==
    \E i \in Frames : log[i].id \in EflashLoaderIds /\ log[i].baud = FlashBaud

\* C4: what follows an acknowledged 0x1a in the log is the switch to the
\* flash rate and then the training burst, sent at the flash rate; and an
\* eflash-loader frame is written only when the entry before the first of
\* them is that handshake, returned with success.
C4_HandshakeAfterRun ==
    InOperation =>
        /\ \A i \in Frames :
             (log[i].id = 26 /\ log[i].err = NoErr) =>
                /\ i + 1 <= Len(log) =>
                     log[i + 1].ev = "set_baud" /\ log[i + 1].args = <<FlashBaud>>
                /\ i + 2 <= Len(log) =>
                     /\ log[i + 2].ev = "burst"
                     /\ log[i + 2].baud = FlashBaud
                     /\ log[i + 2].data = 500
        /\ \A j \in Frames :
             log[j].id \in EflashLoaderIds =>
                \E k \in 3..(j - 1) :
                   /\ log[k].ev = "burst" /\ log[k].err = NoErr
                   /\ IsFrame(k - 2, {26})
                   /\ \A m \in (k + 1)..j : IsFrame(m, EflashLoaderIds)

\* C4 witness: an eflash-loader frame right after the handshake
C4_Witness ==
    \E j \in Frames :
        /\ log[j].id \in EflashLoaderIds
        /\ j > 1 /\ log[j - 1].ev = "burst"

\* ---------------------------------------------------------------- connect
Bursts == {i \in 1..Len(log) : log[i].ev = "burst"}
Resets == {i \in 1..Len(log) : log[i].ev = "reset_to_flash"}
FailedBursts == {i \in Bursts : log[i].err # NoErr}

\* the k-th status header among the bytes a handshake's reads took
Header(val, k) == SubSeq(val, 2 * k - 1, 2 * k)

\* C5: connect calls reset_to_flash once, before the first burst; at most
\* ten handshakes follow, one burst each, back to back; a handshake reads at
\* most five status headers, returns success at the first header that is OK
\* and fails only after five reads; a successful handshake is the last one;
\* connect fails with ConnectionFailed exactly when ten handshakes failed.
C5_ConnectLoop ==
    op = "connect" =>
        /\ pc \notin {"connect", "start_connection"} => Resets = {2}
        /\ Resets \subseteq {2}
        /\ Cardinality(Bursts) <= 10
        /\ \A i \in Bursts :
             /\ i >= 3 /\ \A j \in 3..i : j \in Bursts
             /\ log[i].reads \in 1..5
             /\ log[i].err = NoErr =>
                  /\ Len(log[i].val) = 2 * log[i].reads
                  /\ Header(log[i].val, log[i].reads) = OK
                  /\ \A k \in 1..(log[i].reads - 1) : Header(log[i].val, k) # OK
                  /\ \A j \in Bursts : j <= i
             /\ log[i].err # NoErr =>
                  /\ log[i].reads = 5
                  /\ \A k \in 1..(Len(log[i].val) \div 2) : Header(log[i].val, k) # OK
        /\ (pc = "failed" /\ result = ConnectionFailed) <=> Cardinality(FailedBursts) = 10
        /\ pc \in {"connect_set_timeout", "get_boot_info", "idle"} =>
             \E i \in Bursts : log[i].err = NoErr

\* C5 witness: ten handshakes of five reads each failed and connect
\* returned ConnectionFailed
C5_Witness ==
    /\ op = "connect" /\ pc = "failed" /\ result = ConnectionFailed
    /\ Cardinality(Bursts) = 10
    /\ \A i \in Bursts : log[i].reads = 5

\* ---------------------------------------------------------- load_segments
\* the log entries written for the s-th segment of the for loop
SegEntries(s) == {i \in Frames : log[i].seg = s}
FirstOf(s) == CHOOSE i \in SegEntries(s) : \A j \in SegEntries(s) : i <= j

\* the s-th segment's initial sha256_read returned the local digest
Matched(s) ==
    /\ ~force
    /\ SegEntries(s) # {}
    /\ log[FirstOf(s)].id = 61
    /\ log[FirstOf(s)].err = NoErr
    /\ log[FirstOf(s)].val = Sha256_digest(segs[s])

\* C6: in a load_segments without force, a segment whose initial
\* sha256_read at addr returned the local digest gets that one frame and
\* no other (no flash_erase, no flash_program), and the for loop is past
\* it; when every segment matched, the run has no erase or program frame.
C6_HashSkip ==
    (op = "load_segments" /\ ~force) =>
        /\ \A s \in 1..Len(segs) :
             SegEntries(s) # {} =>
                /\ log[FirstOf(s)].id = 61
                /\ log[FirstOf(s)].args[1] = segs[s].addr
                /\ Matched(s) =>
                     /\ SegEntries(s) = {FirstOf(s)}
                     /\ segIdx = s => pc \in {"segment", "idle"}
                     /\ (segIdx = s /\ pc = "idle") => result = NoErr
        /\ (\A s \in 1..Len(segs) : SegEntries(s) # {} => Matched(s)) =>
             \A i \in Frames : log[i].id \notin {48, 49}

\* C6 witness: a finished run over two segments whose digests both matched
C6_Witness ==
    /\ op = "load_segments" /\ ~force /\ pc = "idle" /\ result = NoErr
    /\ Len(segs) = 2
    /\ Matched(1) /\ Matched(2)
    /\ Cardinality({i \in Frames : log[i].id = 61}) = 2

\* the s-th segment was not skipped and its frames are complete: the last
\* one is the sha256_read after programming
Programmed(s) ==
    /\ ~Matched(s)
    /\ \E i \in SegEntries(s) :
         /\ log[i].id = 61 /\ log[i].err = NoErr
         /\ i - 1 \in SegEntries(s) /\ log[i - 1].id \in {48, 49}

\* C7: the frames of one segment are consecutive in the log and segments
\* come in iteration order; within a segment the first frame is the
\* sha256_read (without force) or the flash_erase (with force), the
\* flash_erase carries (addr, addr + len), the flash_program frames follow
\* from addr upwards, each starting where the one before ended, and the
\* sha256_read(addr, len) after the last of them ends the segment.  The
\* 15-byte segment at 0x10000 gets flash_erase(0x10000, 0x1000F) and one
\* flash_program at 0x10000.
C7_SegmentOrder ==
    op = "load_segments" =>
        /\ \A i \in Frames : \A j \in Frames :
             (i < j /\ log[i].seg > 0) => log[i].seg <= log[j].seg
        /\ \A s \in 1..Len(segs) : \A i \in SegEntries(s) :
             LET e == log[i]
                 first == i = FirstOf(s)
                 p == log[i - 1]
             IN
             /\ first => e.id = IF force THEN 48 ELSE 61
             /\ ~first => p.err = NoErr
             /\ e.id = 48 =>
                  /\ e.args = <<segs[s].addr, segs[s].addr + segs[s].len>>
                  /\ first \/ (~force /\ i - 1 = FirstOf(s) /\ p.id = 61)
             /\ e.id = 49 =>
                  /\ ~first
                  /\ p.id = 48 => e.args = <<segs[s].addr>>
                  /\ p.id = 49 => e.args = <<p.args[1] + p.data>> /\ p.data = PROGRAM_CHUNK
                  /\ p.id \in {48, 49}
                  /\ e.data \in 1..PROGRAM_CHUNK
                  /\ e.args[1] + e.data <= segs[s].addr + segs[s].len
             /\ e.id = 61 =>
                  /\ e.args = <<segs[s].addr, segs[s].len>>
                  /\ ~first => /\ p.id = 49
                               /\ p.args[1] + p.data = segs[s].addr + segs[s].len
                               /\ \A j \in SegEntries(s) : j <= i
             /\ e.id \in {48, 49, 61}
        /\ \A s \in 1..Len(segs) :
             (segs[s] = SegA /\ Programmed(s)) =>
                /\ \E i \in SegEntries(s) : log[i].id = 48 /\ log[i].args = <<65536, 65551>>
                /\ Cardinality({i \in SegEntries(s) : log[i].id = 48}) = 1
                /\ Cardinality({i \in SegEntries(s) : log[i].id = 49}) = 1
                /\ \A i \in SegEntries(s) :
                     log[i].id = 49 => log[i].args = <<65536>> /\ log[i].data = 15

\* C7 witness: a finished run without force that programmed the 15-byte
\* segment and then a segment of more than one chunk
C7_Witness ==
    /\ op = "load_segments" /\ ~force /\ pc = "idle" /\ result = NoErr
    /\ segs = <<SegA, SegC>>
    /\ Programmed(1) /\ Programmed(2)
    /\ Cardinality(SegEntries(1)) = 4
    /\ Cardinality({i \in SegEntries(2) : log[i].id = 49}) = MaxChunks + 1

\* the peer answered frame i with FL and a code
AnsweredFL(i) == Len(log[i].ans) = 4 /\ Take(log[i].ans, 2) = FL
AnsweredCode(i) == u16le(SubSeq(log[i].ans, 3, 4))

\* C8: a command of load_segments that the peer answers with FL and a code
\* makes the operation return RomError of that code (FlashWriteError for
\* 0x0006, the unknown variant for a code outside the enumeration): the
\* frame is the last of the log and the operation has returned.
C8_RomErrorAborts ==
    op = "load_segments" =>
        \A i \in Frames :
            (AnsweredFL(i) /\ log[i].stale = 0) =>
                /\ log[i].err.kind = "RomError"
                /\ AnsweredCode(i) = 6 => log[i].err = RomErr("FlashWriteError")
                /\ AnsweredCode(i) = 4660 => log[i].err = RomErr("Unknow")
                /\ i = Len(log)
                /\ pc = "idle"
                /\ result = log[i].err

\* C8 witness: the second flash_program of a segment answered 46 4C 06 00
C8_Witness ==
    /\ op = "load_segments"
    /\ Len(log) > 1
    /\ log[Len(log)].id = 49 /\ log[Len(log) - 1].id = 49
    /\ log[Len(log)].ans = <<70, 76, 6, 0>>
    /\ result = RomErr("FlashWriteError")

\* the frame i is the sha256_read after programming and its digest differs
\* from the local one
VerifyMismatch(i) ==
    /\ i \in Frames /\ i > 1
    /\ log[i].id = 61 /\ log[i - 1].id = 49 /\ log[i - 1].seg = log[i].seg
    /\ log[i].err = NoErr
    /\ log[i].val # Sha256_digest(segs[log[i].seg])

\* C9: a digest mismatch at the sha256_read after programming does not end
\* load_segments: right after it the for loop is at its next turn, and a
\* run that has returned with no failed entry in its log returned success.
C9_MismatchNotFatal ==
    op = "load_segments" =>
        /\ \A i \in Frames :
             (VerifyMismatch(i) /\ i = Len(log)) =>
                /\ pc \in {"segment", "sha256_read", "flash_erase", "idle"}
                /\ pc = "idle" => result = NoErr
        /\ (/\ pc = "idle"
            /\ \E i \in Frames : VerifyMismatch(i)
            /\ \A i \in 1..Len(log) : log[i].err = NoErr) => result = NoErr

\* C9 witness: a run that returned success although the first segment's
\* verification digest differed, and that went on to the second segment
C9_Witness ==
    /\ op = "load_segments" /\ pc = "idle" /\ result = NoErr
    /\ \E i \in Frames : VerifyMismatch(i) /\ log[i].seg = 1
    /\ \E j \in Frames : log[j].seg = 2

\* ---------------------------------------------------------- read_response
\* the codes of the ROM-error enumeration
EnumCodes == DOMAIN RomError

\* C10: read_response(len) on two status bytes a, b: 4F 4B gives success
\* once the len payload bytes are there; 46 4C and a u16 LE code gives
\* RomError of the enumeration's variant for a code of the enumeration
\* (03 00: FlashEraseError) and RomError(Unknow) for every other code, and
\* also for FF 8F; every other pair gives RespError.
C10_StatusMapping ==
    (op = "read_response" /\ pc = "done") =>
        LET input == log[1].ans
            len == log[1].args[1]
            hdr == Take(input, 2)
            code == u16le(SubSeq(input, 3, 4))
        IN
        /\ (hdr = OK /\ Len(input) >= 2 + len) =>
             /\ result = NoErr
             /\ log[1].val = SubSeq(input, 3, 2 + len)
        /\ (hdr = FL /\ Len(input) = 4) =>
             /\ result.kind = "RomError"
             /\ code \in EnumCodes => result.rom = RomError[code]
             /\ code \notin EnumCodes => result.rom = "Unknow"
             /\ code = 3 => result.rom = "FlashEraseError"
             /\ code = 6 => result.rom = "FlashWriteError"
             /\ code = 65535 => result.rom = "Fail"
             /\ code = 36863 => result.rom = "Unknow"
             /\ code = 8 => result.rom = "Unknow"
        /\ hdr \notin {OK, FL} => result = RespError

\* C10 witness: 46 4C FF 8F was read and gave RomError(Unknow)
C10_Witness ==
    /\ op = "read_response" /\ pc = "done"
    /\ log[1].ans = <<70, 76, 255, 143>>
    /\ result = RomErr("Unknow")

\* ------------------------------------------------------------ serializing
\* C11 (as claimed): whenever a command frame is written, the port holds no
\* unread byte of an earlier answer, the OK answers to the training bursts
\* of connect included.
C11_NoStaleBytes ==
    \A i \in Frames : log[i].stale = 0

\* ---------------------------------------------------------------- boot_info
\* the bytes of the fixed shape of the chip's boot info: len u16, version
\* u32, otp[16], and four more for v2
ShapeLen == IF chip = "BL602" THEN 22 ELSE 26

\* C12 (as claimed): a boot_info answered with OK and at least the bytes of
\* the chip's fixed shape succeeds whatever the len field says, takes
\* exactly the bytes of the shape, and stores len, version and otp as sent;
\* 4F 4B 00 1A 34 12 00 00 and 16 otp bytes give len = 0x1A00.
C12_FixedShapeBootInfo ==
    op = "connect" =>
        \A i \in Frames :
            LET ans == log[i].ans IN
            (/\ log[i].id = 16 /\ log[i].stale = 0
             /\ Len(ans) >= 2 + ShapeLen /\ Take(ans, 2) = OK) =>
                /\ log[i].err = NoErr
                /\ pc = "idle"
                /\ boot_info.len = u16le(SubSeq(ans, 3, 4))
                /\ boot_info.bootrom_version = u32le(SubSeq(ans, 5, 8))
                /\ boot_info.otp_info = SubSeq(ans, 9, 24)
                /\ rx = SubSeq(ans, 3 + ShapeLen, Len(ans))

\* ------------------------------------------------------------ with_timeout
Returns == {i \in 1..Len(log) : log[i].ev = "returned"}

BodyLen(e) == 4 * Len(e.args) + e.data

\* C14: every command frame written starts with cmd_id, 0 and the body
\* length as u16 little-endian, its cmd_id is one of the ten commands', and
\* the body is at most 4004 bytes long, so the u16 holds its length.
C14_FrameHeader ==
    \A i \in Frames :
        LET e == log[i] IN
        /\ e.id \in BootRomIds \cup EflashLoaderIds
        /\ Len(e.hdr) = 4
        /\ e.hdr[1] = e.id
        /\ e.hdr[2] = 0
        /\ e.hdr[3] + 256 * e.hdr[4] = BodyLen(e)
        /\ e.hdr[3] \in Byte /\ e.hdr[4] \in Byte
        /\ BodyLen(e) <= 4004

\* C14 witness: a flash_program frame with a body of 4004 bytes, header
\* 31 00 A4 0F
C14_Witness ==
    \E i \in Frames :
        /\ log[i].id = 49 /\ BodyLen(log[i]) = 4004
        /\ log[i].hdr = <<49, 0, 164, 15>>

\* ----------------------------------------------------- load_segment_data
\* the 0x18 frames of the log, and the bytes of the blob after its first
\* 192 (boot header and segment header)
DataFrames == {i \in Frames : log[i].id = 24}
BlobRest == loaderLen - (LOAD_BOOT_HEADER_LEN + LOAD_SEGMENT_HEADER_LEN)

\* C15: the k-th 0x18 frame of an upload carries the next 4000 bytes of the
\* blob, or the rest when less is left, and never nothing; once 0x19 is
\* written there are ceil(N / 4000) of them and 0x19 directly follows the
\* last; N = 5000 gives frames of 4000 and 1000 bytes.
C15_SegmentDataChunks ==
    InOperation =>
        /\ \A i \in DataFrames :
             LET k == Cardinality({j \in DataFrames : j <= i}) IN
             /\ log[i].data = Min(4000, BlobRest - 4000 * (k - 1))
             /\ log[i].data > 0
             /\ 4000 * (k - 1) < BlobRest
        /\ \A i \in Frames :
             log[i].id = 25 =>
                /\ 4000 * Cardinality(DataFrames) >= BlobRest
                /\ 4000 * (Cardinality(DataFrames) - 1) < BlobRest \/ DataFrames = {}
                /\ BlobRest > 0 => i - 1 \in DataFrames
                /\ BlobRest = 0 => DataFrames = {}
                /\ BlobRest = 5000 =>
                     /\ i = 5
                     /\ log[3].id = 24 /\ log[3].data = 4000
                     /\ log[4].id = 24 /\ log[4].data = 1000
        /\ \A i \in Frames :
             (log[i].id = 26 /\ BlobRest = 5000) => i = 6

\* C15 witness: a blob of 192 + 5000 bytes sent as 4000 and 1000 bytes and
\* followed by 0x19 and 0x1a
C15_Witness ==
    /\ InOperation /\ BlobRest = 5000 /\ Len(log) >= 6
    /\ log[3].id = 24 /\ log[3].data = 4000
    /\ log[4].id = 24 /\ log[4].data = 1000
    /\ log[5].id = 25 /\ log[6].id = 26

\* ------------------------------------------------------ stored boot info
\* C16: after a connect that succeeded the stored boot info has all four
\* fields: len, version and otp are the ones of the peer's answer to the
\* 0x10 frame, and the four extra bytes are zero for BL602 and the peer's
\* for BL616.
C16_BootInfoStored ==
    (op = "connect" /\ pc = "idle") =>
        LET e == log[Len(log)]
            p == Drop(e.ans, 2)
        IN
        /\ e.ev = "frame" /\ e.id = 16 /\ e.hdr = <<16, 0, 0, 0>>
        /\ e.err = NoErr /\ result = NoErr
        /\ e.stale = 0
        /\ Take(e.ans, 2) = OK
        /\ DOMAIN boot_info = {"len", "bootrom_version", "otp_info", "unknow_info"}
        /\ boot_info.len = p[1] + 256 * p[2]
        /\ boot_info.bootrom_version =
             p[3] + 256 * p[4] + 65536 * p[5] + 16777216 * p[6]
        /\ boot_info.otp_info = SubSeq(p, 7, 22)
        /\ chip = "BL602" => boot_info.unknow_info = <<0, 0, 0, 0>>
        /\ chip = "BL616" => boot_info.unknow_info = SubSeq(p, 23, 26)

\* C16 witness: BL602 connected, the peer sent the 22 bytes of v1 with
\* version 0x1234, and the stored extra bytes are zero
C16_Witness ==
    /\ op = "connect" /\ pc = "idle" /\ chip = "BL602"
    /\ Len(log[Len(log)].ans) = 24
    /\ boot_info.bootrom_version = 4660
    /\ boot_info.otp_info = Rep(7, 16)
    /\ boot_info.unknow_info = <<0, 0, 0, 0>>

\* -------------------------------------------------------------------- pins
\* C17 (as claimed): a set_pin that the port accepts drives RTS for "rts"
\* and DTR for "dtr" at the level asked for, at the opposite level for
\* "!rts" and "!dtr", drives nothing for "null", and for every other
\* expression fails with ArgsError and drives nothing; the other line is
\* never touched.
C17_SetPin ==
    \A i \in 1..Len(pinlog) :
        LET e == pinlog[i] IN
        e.err # SerialErr =>
            /\ e.expr = Rts =>
                 e.err = NoErr /\ e.line = "rts" /\ e.rts = e.level /\ e.dtr = e.dtr0
            /\ e.expr = Dtr =>
                 e.err = NoErr /\ e.line = "dtr" /\ e.dtr = e.level /\ e.rts = e.rts0
            /\ e.expr = Bang(Rts) =>
                 e.err = NoErr /\ e.line = "rts" /\ e.rts = ~e.level /\ e.dtr = e.dtr0
            /\ e.expr = Bang(Dtr) =>
                 e.err = NoErr /\ e.line = "dtr" /\ e.dtr = ~e.level /\ e.rts = e.rts0
            /\ e.expr = Null =>
                 e.err = NoErr /\ e.line = "-" /\ e.rts = e.rts0 /\ e.dtr = e.dtr0
            /\ e.expr \notin {Rts, Dtr, Null, Bang(Rts), Bang(Dtr), Bang(Null)} =>
                 e.err = ArgsError /\ e.line = "-" /\ e.rts = e.rts0 /\ e.dtr = e.dtr0

\* the (pin, level) pairs of the pinlog, in order
PinWrites == [i \in 1..Len(pinlog) |-> <<pinlog[i].pin, pinlog[i].level>>]

ResetOrder == << <<"boot", FALSE>>, <<"reset", TRUE>>, <<"reset", FALSE>> >>
ResetToFlashOrder ==
    << <<"boot", TRUE>>, <<"reset", TRUE>>, <<"reset", FALSE>>, <<"boot", FALSE>> >>

\* the last level written to pin p
LastLevel(p) ==
    pinlog[CHOOSE i \in 1..Len(pinlog) :
              /\ pinlog[i].pin = p
              /\ \A j \in (i + 1)..Len(pinlog) : pinlog[j].pin # p].level

\* C18: the pin writes of reset() are boot=false, reset=true, reset=false
\* and those of reset_to_flash() boot=true, reset=true, reset=false,
\* boot=false, in this order; a failed write is the last one and its error
\* is returned; a sequence that completed made all its writes, the last
\* level written to either pin is false, and in reset_to_flash both reset
\* writes lie between boot=true and boot=false.
C18_ResetSequences ==
    (op \in {"reset", "reset_to_flash"} /\ pc # "reset") =>
        LET order == IF op = "reset" THEN ResetOrder ELSE ResetToFlashOrder IN
        /\ Len(pinlog) \in 1..Len(order)
        /\ PinWrites = SubSeq(order, 1, Len(pinlog))
        /\ \A i \in 1..Len(pinlog) : pinlog[i].err # NoErr => i = Len(pinlog)
        /\ result = pinlog[Len(pinlog)].err
        /\ pc = "done" <=> result = NoErr
        /\ pc = "done" =>
             /\ Len(pinlog) = Len(order)
             /\ LastLevel("reset") = FALSE
             /\ LastLevel("boot") = FALSE
             /\ op = "reset_to_flash" =>
                  /\ pinlog[1].pin = "boot" /\ pinlog[1].level
                  /\ pinlog[2].pin = "reset" /\ pinlog[3].pin = "reset"
                  /\ pinlog[4].pin = "boot" /\ ~pinlog[4].level
             /\ (reset_pin = DefaultResetPin /\ boot_pin = DefaultBootPin) =>
                  /\ rts = FALSE /\ dtr = TRUE
                  /\ op = "reset_to_flash" =>
                       \A i \in 1..3 : pinlog[i].dtr = FALSE

\* C18 witness: reset_to_flash completed on the default pins
C18_Witness ==
    /\ op = "reset_to_flash" /\ pc = "done"
    /\ reset_pin = DefaultResetPin /\ boot_pin = DefaultBootPin
    /\ Len(pinlog) = 4
    /\ rts = FALSE /\ dtr = TRUE

\* ---------------------------------------------------------- check_segments
LoaderFrames == {i \in Frames : log[i].id \in EflashLoaderIds}

\* C19: in check_segments the frames after the upload are sha256_read
\* frames only, one for each segment the loop has taken, in the order of
\* the segments, with the segment's addr and size; a digest that differs
\* does not end the loop, and the operation returns an error only when the
\* blob is too short for its headers or the last entry of the log failed.
C19_CheckSegments ==
    op = "check_segments" =>
        /\ \A i \in LoaderFrames : log[i].id = 61
        /\ Cardinality(LoaderFrames) = Len(segs)
        /\ \A s \in 1..Len(segs) :
             /\ Cardinality(SegEntries(s)) = 1
             /\ log[FirstOf(s)].args = <<segs[s].addr, size(segs[s])>>
             /\ s > 1 => FirstOf(s) = FirstOf(s - 1) + 1
             /\ s < Len(segs) => log[FirstOf(s)].err = NoErr
        /\ (pc = "idle" /\ result # NoErr) =>
             \/ log = <<>> /\ result = IOErr
             \/ log # <<>> /\ log[Len(log)].err = result
             \/ log # <<>> /\ log[Len(log)].err = NoErr /\ result = IOErr /\ LoaderFrames = {}
        /\ (pc = "idle" /\ \A i \in 1..Len(log) : log[i].err = NoErr) =>
             \/ result = NoErr
             \/ result = IOErr /\ LoaderFrames = {}

\* C19 witness: a check of two segments that returned success, the first
\* digest differing and the second matching
C19_Witness ==
    /\ op = "check_segments" /\ pc = "idle" /\ result = NoErr
    /\ Len(segs) = 2
    /\ log[FirstOf(1)].val = OtherDigest
    /\ log[FirstOf(2)].val = Sha256_digest(segs[2])

\* -------------------------------------------------------------- dump_flash
\* the flash_read frames of the log; a flash_read that returned as many
\* bytes as it asked for
ReadFrames == {i \in Frames : log[i].id = 50}
Exact(i) == log[i].err = NoErr /\ log[i].val = <<log[i].args[2]>>

\* C20: after the upload dump_flash writes flash_read frames only, back to
\* back; each asks for min(4096, end - cur) bytes at cur < end, the first at
\* start and each later one where the data of the one before ended, so
\* that reads which return what was asked for tile [start, end) upwards
\* without gap or overlap; a dump that returned success after such reads
\* wrote end - start bytes and its last read ended at end; no flash_read
\* is written when start >= end.
C20_DumpTiles ==
    op = "dump_flash" =>
        /\ \A i \in LoaderFrames : log[i].id = 50
        /\ \A i \in ReadFrames :
             LET a == log[i].args[1]
                 p == log[i - 1]
             IN
             /\ a < range.end
             /\ log[i].args = <<a, Min(4096, range.end - a)>>
             /\ \A j \in i..Len(log) : j \in ReadFrames
             /\ i - 1 \notin ReadFrames => a = range.start
             /\ i - 1 \in ReadFrames =>
                  /\ p.err = NoErr
                  /\ a = p.args[1] + p.val[1]
                  /\ Exact(i - 1) => a = p.args[1] + p.args[2]
        /\ range.start >= range.end => ReadFrames = {} /\ written = 0
        /\ (\A i \in ReadFrames : Exact(i)) =>
             /\ written = cur - range.start \/ ReadFrames = {}
             /\ (pc = "idle" /\ result = NoErr /\ range.start < range.end) =>
                  /\ written = range.end - range.start
                  /\ \E i \in ReadFrames :
                       i = Len(log) /\ log[i].args[1] + log[i].args[2] = range.end

\* C20 witness: the range [4096, 8193) dumped by a read of 4096 bytes at
\* 4096 and a read of one byte at 8192
C20_Witness ==
    /\ op = "dump_flash" /\ pc = "idle" /\ result = NoErr
    /\ range = [start |-> 4096, end |-> 8193]
    /\ Cardinality(ReadFrames) = 2
    /\ \A i \in ReadFrames : Exact(i)
    /\ log[Len(log) - 1].args = <<4096, 4096>>
    /\ log[Len(log)].args = <<8192, 1>>
    /\ written = 4097

\* ----------------------------------------------------------- flash_program
\* the flash_program frames of the s-th segment, and the flash_erase of it
ProgramFrames(s) == {i \in SegEntries(s) : log[i].id = 49}
EraseFrames(s) == {i \in SegEntries(s) : log[i].id = 48}

\* the program loop of the s-th segment ran to its end: the sha256_read
\* after it is in the log
ProgramDone(s) ==
    \E i \in SegEntries(s) : log[i].id = 61 /\ i - 1 \in ProgramFrames(s)

RECURSIVE DataSum(_)
DataSum(S) ==
    IF S = {} THEN 0
    ELSE LET i == CHOOSE j \in S : TRUE IN log[i].data + DataSum(S \ {i})

\* C21: in load_segments the i-th flash_program frame of a segment (from 0)
\* is at addr + 4000 * i and carries 1 to 4000 bytes; a flash_erase of the
\* segment that returned success precedes it and its bytes lie inside the
\* erased [addr, addr + len); once the loop is over the frames are
\* ceil(len / 4000) and their data lengths sum to len.
C21_ProgramTiles ==
    op = "load_segments" =>
        \A s \in 1..Len(segs) :
            /\ \A i \in ProgramFrames(s) :
                 LET k == Cardinality({j \in ProgramFrames(s) : j < i}) IN
                 /\ log[i].args = <<segs[s].addr + 4000 * k>>
                 /\ log[i].data \in 1..4000
                 /\ \E x \in EraseFrames(s) :
                      /\ x < i /\ log[x].err = NoErr
                      /\ log[x].args[1] = segs[s].addr
                      /\ log[x].args[2] = segs[s].addr + segs[s].len
                      /\ log[x].args[1] <= log[i].args[1]
                      /\ log[i].args[1] + log[i].data <= log[x].args[2]
            /\ ProgramDone(s) =>
                 /\ Cardinality(ProgramFrames(s)) = (segs[s].len + 3999) \div 4000
                 /\ DataSum(ProgramFrames(s)) = segs[s].len

\* C21 witness: a segment of more than one chunk programmed to the end, the
\* last frame carrying the odd byte
C21_Witness ==
    /\ op = "load_segments"
    /\ \E s \in 1..Len(segs) :
         /\ segs[s] = SegC /\ ProgramDone(s)
         /\ Cardinality(ProgramFrames(s)) = MaxChunks + 1
         /\ \E i \in ProgramFrames(s) : log[i].data = 1

\* ----------------------------------------------------------------- retries
\* C22: an entry of the log that failed is the last one, the operation has
\* returned and returned that error, except for a failed training burst of
\* connect, which is followed by the next burst; an operation sends one
\* training burst at most, after the upload, with one to five status reads,
\* and when it fails it does so with Timeout after five reads.
C22_NoRetry ==
    /\ \A i \in 1..Len(log) :
         log[i].err # NoErr =>
            \/ /\ i = Len(log)
               /\ pc \in {"idle", "failed"} \/ (op = "connect" /\ log[i].ev = "burst")
               /\ pc \in {"idle", "failed"} =>
                    \/ result = log[i].err
                    \/ op = "connect" /\ log[i].ev = "burst" /\ result = ConnectionFailed
            \/ /\ i < Len(log)
               /\ op = "connect"
               /\ log[i].ev = "burst" /\ log[i + 1].ev = "burst"
    /\ InOperation =>
         /\ Cardinality(Bursts) <= 1
         /\ \A i \in Bursts :
              /\ log[i].reads \in 1..5
              /\ log[i].err \in {NoErr, TimeoutErr}
              /\ log[i].err = TimeoutErr => log[i].reads = 5

\* C22 witness: a flash_erase that got no answer is the last entry of a
\* load_segments that returned the read's error
C22_Witness ==
    /\ op = "load_segments" /\ pc = "idle" /\ result = IOErr
    /\ log # <<>>
    /\ log[Len(log)].ev = "frame" /\ log[Len(log)].id = 48
    /\ log[Len(log)].ans = <<>> /\ log[Len(log)].err = IOErr

\* -------------------------------------------------------------------- flash
\* the entry of flash's reset() in the log, and the pin writes made after
\* those of connect
ResetEntries == {i \in 1..Len(log) : log[i].ev = "reset"}
PinWritesAfterConnect ==
    {i \in 1..Len(pinlog) : i > Len(reset_to_flash_calls)}

\* the for loop of load_segments is through with the s-th segment
SegmentDone(s) ==
    \/ Matched(s)
    \/ \E i \in SegEntries(s) :
         log[i].id = 61 /\ log[i].err = NoErr /\ i - 1 \in ProgramFrames(s)

\* C23: flash takes the reset() step exactly when load_segments has
\* returned success; then every entry of its log succeeded and every
\* segment the iterator gave is done.  The reset pins are driven after
\* connect only by that step, in the order of reset().  After an error of
\* connect or of load_segments flash has no step left: no frame, no further
\* segment, no pin write; and the failed entry is the last of the log.
C23_FlashReset ==
    /\ (ENABLED flash_reset) <=> (op = "load_segments" /\ pc = "idle" /\ result = NoErr)
    /\ (op = "load_segments" /\ pc = "idle" /\ result = NoErr) =>
         /\ \A i \in 1..Len(log) : log[i].err = NoErr
         /\ \A s \in 1..Len(segs) : SegmentDone(s)
    /\ ResetEntries # {} =>
         /\ op = "flash" /\ pc = "done"
         /\ ResetEntries = {Len(log)}
         /\ \A i \in 1..(Len(log) - 1) : log[i].err = NoErr
         /\ \A s \in 1..Len(segs) : SegmentDone(s)
         /\ result = log[Len(log)].err
         /\ PinWritesAfterConnect # {}
         /\ \A i \in PinWritesAfterConnect :
              LET k == i - Len(reset_to_flash_calls) IN
              /\ k <= Len(reset_calls)
              /\ pinlog[i].pin = reset_calls[k].pin
              /\ pinlog[i].level = reset_calls[k].level
         /\ result = NoErr => Cardinality(PinWritesAfterConnect) = Len(reset_calls)
    /\ ResetEntries = {} => PinWritesAfterConnect = {}
    /\ (pc = "failed" \/ (pc \in {"idle", "done"} /\ result # NoErr)) =>
         /\ ~ENABLED NextFlash
         /\ \A i \in 1..Len(log) :
              log[i].err # NoErr =>
                 i = Len(log) \/ (log[i].ev = "burst" /\ log[i + 1].ev = "burst")
         /\ op # "flash" => PinWritesAfterConnect = {}

\* C23 witness: flash reset the device after a load_segments that
\* programmed two segments
C23_Witness ==
    /\ op = "flash" /\ pc = "done" /\ result = NoErr
    /\ Len(segs) = 2 /\ ProgramDone(1) /\ ProgramDone(2)
    /\ ResetEntries = {Len(log)}
    /\ Cardinality(PinWritesAfterConnect) = Len(reset_calls)
    /\ dev = "app"

\* ------------------------------------------------------ load_segment_header
\* the 0x17 frame i returned success with an echo that differs from the 16
\* bytes sent
EchoDiffers(i) ==
    /\ i \in Frames /\ log[i].id = 23
    /\ log[i].err = NoErr
    /\ log[i].val # SegmentHeaderBytes

\* C24: a 0x17 frame whose echo came back, equal to the bytes sent or not,
\* does not end the upload: right after it the upload is at
\* load_segment_data (or past it when the blob has no data), and the frame
\* written next is the first 0x18 with
\* the first 4000 bytes of the rest of the blob (or what is left), or 0x19
\* when nothing is left; the run gets to 0x19 and 0x1a.
C24_EchoMismatchNotFatal ==
    InOperation =>
        \A i \in Frames :
            (log[i].id = 23 /\ log[i].err = NoErr) =>
                /\ i = Len(log) =>
                     pc = "load_segment_data" \/ (BlobRest = 0 /\ pc = "check_image")
                /\ i < Len(log) =>
                     /\ log[i + 1].ev = "frame"
                     /\ log[i + 1].id = IF BlobRest > 0 THEN 24 ELSE 25
                     /\ BlobRest > 0 => log[i + 1].data = Min(4000, BlobRest)
                /\ (UploadDone /\ EchoDiffers(i)) =>
                     /\ \E j \in Frames : j > i /\ log[j].id = 25 /\ log[j].err = NoErr
                     /\ \E j \in Frames : j > i /\ log[j].id = 26 /\ log[j].err = NoErr

\* C24 witness: an upload whose 0x17 echo differed and that went on with
\* two 0x18 frames, 0x19 and 0x1a, all acknowledged
C24_Witness ==
    /\ InOperation /\ UploadDone
    /\ EchoDiffers(2)
    /\ Len(log) >= 6
    /\ log[3].id = 24 /\ log[4].id = 24 /\ log[5].id = 25 /\ log[6].id = 26
    /\ \A i \in 1..6 : log[i].err = NoErr

\* --------------------------------------------------------------- short blobs
SetBauds == {i \in 1..Len(log) : log[i].ev = "set_baud"}

\* C25: with a blob of less than 176 bytes an operation returns an error
\* with an empty log; with a blob of 176 to 191 bytes it returns an error
\* with the 0x11 frame as the only entry of its log; in both cases the
\* log has no 0x17, 0x18, 0x19 or 0x1a frame and no set_baud, and the
\* port stays at the initial baud rate.
C25_ShortBlob ==
    (InOperation /\ loaderLen < 192) =>
        /\ \A i \in Frames : log[i].id \notin {23, 24, 25, 26}
        /\ SetBauds = {} /\ baud_rate = InitialBaud
        /\ pc \in {"load_boot_header", "load_segment_header", "idle"}
        /\ pc = "idle" => result # NoErr
        /\ loaderLen < 176 =>
             /\ log = <<>>
             /\ pc \in {"load_boot_header", "idle"}
             /\ pc = "idle" => result = IOErr
        /\ loaderLen >= 176 =>
             /\ pc = "load_boot_header" <=> log = <<>>
             /\ log # <<>> =>
                  /\ Len(log) = 1 /\ log[1].ev = "frame" /\ log[1].id = 17
                  /\ log[1].err = NoErr => pc = "load_segment_header" \/ result = IOErr
                  /\ log[1].err # NoErr => pc = "idle" /\ result = log[1].err

\* C25 witness: a blob of 191 bytes, the 0x11 frame acknowledged, the
\* operation failed at the read of the segment header
C25_Witness ==
    /\ InOperation /\ loaderLen = 191
    /\ pc = "idle" /\ result = IOErr
    /\ Len(log) = 1 /\ log[1].id = 17 /\ log[1].err = NoErr

\* ------------------------------------------------------ calc_duration_length
\* the rate calc_duration_length works with: 115200 when none was set
RateOf(e) == IF e.baud = 0 THEN 115200 ELSE e.baud

\* C26 (as claimed): calc_duration_length(d) is
\* floor(floor(baud / 10) / 1000) * d_ms, with 115200 for a baud rate that
\* was never set; the handshake burst has 55 bytes at 115200 baud and 500
\* at 1000000 baud, and at least one byte at every baud rate.
C26_BurstLength ==
    op = "calc_duration_length" =>
        \A i \in 1..Len(log) :
            /\ log[i].ev \in {"calc_duration_length", "burst"} =>
                 log[i].data = ((RateOf(log[i]) \div 10) \div 1000) * log[i].args[1]
            /\ log[i].ev = "burst" =>
                 /\ log[i].args = <<5>>
                 /\ RateOf(log[i]) = 115200 => log[i].data = 55
                 /\ RateOf(log[i]) = 1000000 => log[i].data = 500
                 /\ log[i].data >= 1

\* ------------------------------------------------------- dump_flash: the end
\* C27 (as claimed): dump_flash comes to an end whatever number of bytes a
\* well-formed OK answer to flash_read carries: every such answer moves the
\* cursor forward, so that no two flash_read frames ask for the same
\* address, and never past end; the cursor stays within [start, end].
C27_DumpTerminates ==
    op = "dump_flash" =>
        /\ \A i \in ReadFrames :
             log[i].err = NoErr =>
                /\ log[i].val[1] >= 1
                /\ log[i].args[1] + log[i].val[1] <= range.end
        /\ \A i \in ReadFrames : \A j \in ReadFrames :
             i < j => log[i].args[1] < log[j].args[1]
        /\ (pc \in {"dump", "idle"} /\ ReadFrames # {}) =>
             (range.start <= cur /\ cur <= range.end)

====
